---------------------------- MODULE Spec2Model ----------------------------
(***************************************************************************)
(* A model of sifredb: the context model, the header codec, the envelope   *)
(* vault, the deterministic vault and the file key provider.               *)
(*                                                                         *)
(* Bytes are the integers 0..255.  A Rust String or &str is the sequence   *)
(* of its UTF-8 bytes, an Option<T> is a sequence of length 0 (None) or 1  *)
(* (Some).  A Result is a record [ok, val, err]: Ok(v) or Err(e), where e  *)
(* is [kind, inner, msg, detail]: kind names the Error (or, for a provider *)
(* result, the KeyProviderError) variant, inner the KeyProviderError that  *)
(* Error::KeyProvider carries, msg is the message text and detail is the   *)
(* sequence of the numbers and strings the variant or message holds.       *)
(***************************************************************************)
EXTENDS Integers, Sequences, FiniteSets, TLC

-----------------------------------------------------------------------------
(* Bounds of the model.                                                    *)

\* the highest context version the runs set with with_version
MaxVersion == 2
\* header fields have every length up to SmallLen, and the boundary lengths
SmallLen == 2
\* every strict prefix of at most MaxPrefix bytes of a serialized header is parsed
MaxPrefix == 30
\* a run encrypts at most MaxBlobs blobs
MaxBlobs == 2
\* a run makes at most MaxDraws draws from OsRng: two for init, one for each
\* create_kek, three for each encrypt
MaxDraws == 10
\* from_bytes is given every sequence of at most MaxParseLen bytes 0, 1 and 255
MaxParseLen == 8

-----------------------------------------------------------------------------
(* State.                                                                  *)

VARIABLES
    ctxA, ctxB,     \* two EncryptionContext values under construction
    strs,           \* <<>>, or their two canonical strings once formatted
    hdr,            \* None, or Some(the EncryptionHeader built by new)
    wire,           \* None, or Some(the result of to_bytes on hdr)
    parsed,         \* None, or Some([input, res]): a from_bytes call and its result
    disk,           \* the file system: [dirs, files, links]
    draws,          \* the number of draws made from OsRng
    sealedChaCha,   \* the inputs sealed with ChaCha20-Poly1305, in order
    sealedSiv,      \* the inputs sealed with AES-SIV, in order
    fileProvider,   \* None, or Some(the key provider of the Vault)
    det,            \* None, or Some(the DeterministicVault)
    blobs,          \* the blobs encrypted so far: [p, c, blob]
    res,            \* the latest call: [op, i, ctx, data, out]
    hmacs,          \* the inputs HMAC-SHA256 was computed for, in order
    threads         \* the call each thread is in: [op, pc, kek_id, key, out]

ctxVars == <<ctxA, ctxB, strs>>
hdrVars == <<hdr, wire, parsed>>
vaultVars ==
    <<disk, draws, sealedChaCha, sealedSiv, fileProvider, det, blobs, res, hmacs, threads>>
vars == <<ctxVars, hdrVars, vaultVars>>

-----------------------------------------------------------------------------
(* Results, options and sequences.                                         *)

None == <<>>
Some(x) == <<x>>

NoError == [kind |-> "none", inner |-> "", msg |-> "", detail |-> <<>>]
Ok(v) == [ok |-> TRUE, val |-> v, err |-> NoError]
Err(kind, msg, detail) ==
    [ok |-> FALSE, val |-> <<>>,
     err |-> [kind |-> kind, inner |-> "", msg |-> msg, detail |-> detail]]

\* vec![b; n]
Repeat(b, n) == [i \in 1..n |-> b]

\* data[from..to], Rust's half-open slice with 0-based bounds
Slice(data, from, to) == SubSeq(data, from + 1, to)

Max(a, b) == IF a >= b THEN a ELSE b

-----------------------------------------------------------------------------
(* Text.  The characters the model uses, as their UTF-8 bytes.             *)

StrDefault == <<100, 101, 102, 97, 117, 108, 116>>      \* "default"
StrPipe == <<124>>                                      \* "|"
StrV == <<118>>                                         \* "v"
StrA == <<97>>                                          \* "a"
StrAPipeA == <<97, 124, 97>>                            \* "a|a"

\* u32 / u8 / usize Display: the decimal digits, no sign, no padding
RECURSIVE DecimalString(_)
DecimalString(n) ==
    IF n < 10 THEN <<48 + n>>
    ELSE Append(DecimalString(n \div 10), 48 + (n % 10))

-----------------------------------------------------------------------------
(* Context model (context.rs).                                             *)

\* EncryptionContext::new: no tenant, version 1
EncryptionContextNew(table_name, column_name) ==
    [tenant_id |-> None, table_name |-> table_name,
     column_name |-> column_name, version |-> 1]

with_tenant(ctx, tenant_id) == [ctx EXCEPT !.tenant_id = Some(tenant_id)]

with_version(ctx, version) == [ctx EXCEPT !.version = version]

\* self.tenant_id.as_deref().unwrap_or("default")
TenantOrDefault(tenant_id) == IF tenant_id = None THEN StrDefault ELSE tenant_id[1]

\* impl Display for EncryptionContext: "{}|{}|{}|v{}"
CanonicalString(ctx) ==
    TenantOrDefault(ctx.tenant_id) \o StrPipe \o ctx.table_name \o StrPipe
        \o ctx.column_name \o StrPipe \o StrV \o DecimalString(ctx.version)

\* IndexContext: the same shape without the version
IndexContextNew(table_name, column_name) ==
    [tenant_id |-> None, table_name |-> table_name, column_name |-> column_name]

\* impl Display for IndexContext: "{}|{}|{}"
IndexCanonicalString(ictx) ==
    TenantOrDefault(ictx.tenant_id) \o StrPipe \o ictx.table_name \o StrPipe
        \o ictx.column_name

\* impl From<&EncryptionContext> for IndexContext
IndexContextFrom(ctx) ==
    [tenant_id |-> ctx.tenant_id, table_name |-> ctx.table_name,
     column_name |-> ctx.column_name]

\* the names and tenants the runs build contexts from
Names == {StrA, StrAPipeA}
Tenants == {StrDefault, StrA, StrAPipeA}
Versions == 0..MaxVersion


-----------------------------------------------------------------------------
(* Header codec (header.rs).                                               *)

PROTOCOL_VERSION == 1
KEK_ID_MAX_LEN == 255
WRAPPED_DEK_MAX_LEN == 65535
NONCE_MAX_LEN == 255

\* HeaderFlags::empty, with_deterministic (self.0 |= 0x01), is_deterministic
HeaderFlagsEmpty == 0
HeaderFlagsWithDeterministic(flags) == IF flags % 2 = 1 THEN flags ELSE flags + 1
HeaderFlagsIsDeterministic(flags) == flags % 2 = 1

\* EncryptionHeader::new setting the deterministic flag
EncryptionHeaderNewDeterministic(kek_id, wrapped_dek, flags, nonce) ==
    [version |-> PROTOCOL_VERSION, kek_id |-> kek_id, wrapped_dek |-> wrapped_dek,
     flags |-> HeaderFlagsWithDeterministic(flags), nonce |-> nonce]

\* EncryptionHeader::new: the version is always PROTOCOL_VERSION
EncryptionHeaderNew(kek_id, wrapped_dek, flags, nonce) ==
    [version |-> PROTOCOL_VERSION, kek_id |-> kek_id, wrapped_dek |-> wrapped_dek,
     flags |-> flags, nonce |-> nonce]

\* len as u8, len as u16: the casts truncate
AsU8(n) == n % 256
AsU16(n) == n % 65536
\* u16::to_be_bytes, u16::from_be_bytes
ToBeBytes(n) == <<n \div 256, n % 256>>
FromBeBytes(hi, lo) == hi * 256 + lo

\* to_bytes without the check of the nonce length (a mutant of to_bytes)
to_bytes_NoNonceCheck(h) ==
    IF Len(h.kek_id) > KEK_ID_MAX_LEN
    THEN Err("InvalidHeader", "KEK ID too long", <<DecimalString(Len(h.kek_id))>>)
    ELSE IF Len(h.wrapped_dek) > WRAPPED_DEK_MAX_LEN
    THEN Err("InvalidHeader", "Wrapped DEK too long",
             <<DecimalString(Len(h.wrapped_dek))>>)
    ELSE Ok(<<h.version>>
            \o <<AsU8(Len(h.kek_id))>> \o h.kek_id
            \o ToBeBytes(AsU16(Len(h.wrapped_dek))) \o h.wrapped_dek
            \o <<h.flags>>
            \o <<AsU8(Len(h.nonce))>> \o h.nonce)

\* EncryptionHeader::to_bytes
to_bytes(h) ==
    IF Len(h.kek_id) > KEK_ID_MAX_LEN
    THEN Err("InvalidHeader", "KEK ID too long", <<DecimalString(Len(h.kek_id))>>)
    ELSE IF Len(h.wrapped_dek) > WRAPPED_DEK_MAX_LEN
    THEN Err("InvalidHeader", "Wrapped DEK too long",
             <<DecimalString(Len(h.wrapped_dek))>>)
    ELSE IF Len(h.nonce) > NONCE_MAX_LEN
    THEN Err("InvalidHeader", "Nonce too long", <<DecimalString(Len(h.nonce))>>)
    ELSE Ok(<<h.version>>
            \o <<AsU8(Len(h.kek_id))>> \o h.kek_id
            \o ToBeBytes(AsU16(Len(h.wrapped_dek))) \o h.wrapped_dek
            \o <<h.flags>>
            \o <<AsU8(Len(h.nonce))>> \o h.nonce)

\* a UTF-8 continuation byte
IsCont(b) == b >= 128 /\ b <= 191

\* the length of the character a lead byte starts; 0 for a byte that starts none
Utf8CharLen(b) ==
    IF b < 128 THEN 1
    ELSE IF b >= 194 /\ b <= 223 THEN 2
    ELSE IF b >= 224 /\ b <= 239 THEN 3
    ELSE IF b >= 240 /\ b <= 244 THEN 4
    ELSE 0

\* String::from_utf8 accepts exactly the well-formed UTF-8 byte sequences:
\* every byte is a lead byte followed by the continuation bytes of its
\* character (the second one in the range that excludes overlong forms,
\* surrogates and code points over U+10FFFF), or a continuation byte of the
\* character that a lead byte up to three places before it starts
IsValidUtf8(s) ==
    \A i \in 1..Len(s) :
        LET b == s[i]
            n == Utf8CharLen(b)
        IN  IF IsCont(b)
            THEN \E j \in 1..3 :
                    /\ i - j >= 1
                    /\ Utf8CharLen(s[i - j]) > j
                    /\ \A m \in (i - j + 1)..(i - 1) : IsCont(s[m])
            ELSE /\ n >= 1
                 /\ i + n - 1 <= Len(s)
                 /\ \A m \in (i + 1)..(i + n - 1) : IsCont(s[m])
                 /\ (b = 224 => s[i + 1] >= 160)
                 /\ (b = 237 => s[i + 1] <= 159)
                 /\ (b = 240 => s[i + 1] >= 144)
                 /\ (b = 244 => s[i + 1] <= 143)

\* from_bytes taking the bytes that are left as the nonce when fewer than
\* nonce_len remain (a mutant of FromBytesNonce)
FromBytesNonceClamped(data, pos0, version, kek_id, wrapped_dek, flags) ==
    IF pos0 >= Len(data)
    THEN Err("InvalidHeader", "Missing nonce length", <<>>)
    ELSE LET nonce_len == data[pos0 + 1]
             pos == pos0 + 1
             stop == IF pos + nonce_len > Len(data) THEN Len(data) ELSE pos + nonce_len
         IN  Ok([header |-> [version |-> version, kek_id |-> kek_id,
                             wrapped_dek |-> wrapped_dek, flags |-> flags,
                             nonce |-> Slice(data, pos, stop)],
                 consumed |-> stop])

\* from_bytes, the nonce: length byte and bytes; pos is the 0-based read position
FromBytesNonce(data, pos0, version, kek_id, wrapped_dek, flags) ==
    IF pos0 >= Len(data)
    THEN Err("InvalidHeader", "Missing nonce length", <<>>)
    ELSE LET nonce_len == data[pos0 + 1]
             pos == pos0 + 1
         IN  IF pos + nonce_len > Len(data)
             THEN Err("InvalidHeader", "Nonce truncated", <<>>)
             ELSE Ok([header |-> [version |-> version, kek_id |-> kek_id,
                                  wrapped_dek |-> wrapped_dek, flags |-> flags,
                                  nonce |-> Slice(data, pos, pos + nonce_len)],
                      consumed |-> pos + nonce_len])

\* from_bytes keeping only the lowest bit of the flags byte
FromBytesFlagsLowBit(data, pos, version, kek_id, wrapped_dek) ==
    IF pos >= Len(data)
    THEN Err("InvalidHeader", "Missing flags", <<>>)
    ELSE FromBytesNonce(data, pos + 1, version, kek_id, wrapped_dek, data[pos + 1] % 2)

\* from_bytes, the flags byte
FromBytesFlags(data, pos, version, kek_id, wrapped_dek) ==
    IF pos >= Len(data)
    THEN Err("InvalidHeader", "Missing flags", <<>>)
    ELSE FromBytesNonce(data, pos + 1, version, kek_id, wrapped_dek, data[pos + 1])

\* from_bytes reading the wrapped DEK length low byte first (a mutant of
\* FromBytesWrappedDek)
FromBytesWrappedDekLittleEndian(data, pos0, version, kek_id) ==
    IF pos0 + 2 > Len(data)
    THEN Err("InvalidHeader", "Missing wrapped DEK length", <<>>)
    ELSE LET wrapped_dek_len == FromBeBytes(data[pos0 + 2], data[pos0 + 1])
             pos == pos0 + 2
         IN  IF pos + wrapped_dek_len > Len(data)
             THEN Err("InvalidHeader", "Wrapped DEK truncated", <<>>)
             ELSE FromBytesFlags(data, pos + wrapped_dek_len, version, kek_id,
                                 Slice(data, pos, pos + wrapped_dek_len))

\* from_bytes, the wrapped DEK: big-endian u16 length and bytes
FromBytesWrappedDek(data, pos0, version, kek_id) ==
    IF pos0 + 2 > Len(data)
    THEN Err("InvalidHeader", "Missing wrapped DEK length", <<>>)
    ELSE LET wrapped_dek_len == FromBeBytes(data[pos0 + 1], data[pos0 + 2])
             pos == pos0 + 2
         IN  IF pos + wrapped_dek_len > Len(data)
             THEN Err("InvalidHeader", "Wrapped DEK truncated", <<>>)
             ELSE FromBytesFlags(data, pos + wrapped_dek_len, version, kek_id,
                                 Slice(data, pos, pos + wrapped_dek_len))

\* from_bytes, the KEK id: length byte and UTF-8 bytes
FromBytesKekId(data, pos0, version) ==
    IF pos0 >= Len(data)
    THEN Err("InvalidHeader", "Missing KEK ID length", <<>>)
    ELSE LET kek_id_len == data[pos0 + 1]
             pos == pos0 + 1
         IN  IF pos + kek_id_len > Len(data)
             THEN Err("InvalidHeader", "KEK ID truncated", <<>>)
             ELSE IF ~IsValidUtf8(Slice(data, pos, pos + kek_id_len))
             THEN Err("InvalidHeader", "Invalid KEK ID UTF-8", <<>>)
             ELSE FromBytesWrappedDek(data, pos + kek_id_len, version,
                                      Slice(data, pos, pos + kek_id_len))

\* from_bytes, rejecting only the versions above PROTOCOL_VERSION
from_bytes_VersionAtMost(data) ==
    IF Len(data) = 0
    THEN Err("InvalidHeader", "Empty header data", <<>>)
    ELSE IF data[1] > PROTOCOL_VERSION
    THEN Err("UnsupportedVersion", "", <<<<data[1]>>, DecimalString(PROTOCOL_VERSION)>>)
    ELSE FromBytesKekId(data, 1, data[1])

\* from_bytes checking that a length byte follows before it checks the version
from_bytes_LengthFirst(data) ==
    IF Len(data) = 0
    THEN Err("InvalidHeader", "Empty header data", <<>>)
    ELSE IF Len(data) < 2
    THEN Err("InvalidHeader", "Missing KEK ID length", <<>>)
    ELSE IF data[1] # PROTOCOL_VERSION
    THEN Err("UnsupportedVersion", "", <<<<data[1]>>, DecimalString(PROTOCOL_VERSION)>>)
    ELSE FromBytesKekId(data, 1, data[1])

\* EncryptionHeader::from_bytes: Ok([header, consumed]) or an error
from_bytes(data) ==
    IF Len(data) = 0
    THEN Err("InvalidHeader", "Empty header data", <<>>)
    ELSE IF data[1] # PROTOCOL_VERSION
    THEN Err("UnsupportedVersion", "", <<<<data[1]>>, DecimalString(PROTOCOL_VERSION)>>)
    ELSE FromBytesKekId(data, 1, data[1])


-----------------------------------------------------------------------------
(* Randomness and the ciphers of the external crates.                      *)
(*                                                                         *)
(* OsRng is taken as an ideal source: the k-th draw returns bytes that no  *)
(* other draw returns.  ChaCha20-Poly1305 and AES-SIV are taken as ideal   *)
(* authenticated ciphers: the body is the message XORed with a key stream  *)
(* that the key and the nonce determine, and the 16-byte tag names the     *)
(* entry of a table of the inputs that were sealed so far, so that a tag   *)
(* verifies only for the very key, nonce, associated data and body it was  *)
(* issued for.                                                             *)

KEK_SIZE == 32
PEPPER_SIZE == 32
FILE_NONCE_SIZE == 12
NONCE_SIZE == 12
DEK_SIZE == 32
CHACHA_KEY_SIZE == 32
SIV_KEY_SIZE == 64
SIV_NONCE_SIZE == 16
TAG_SIZE == 16
MODE_0600 == 384

\* OsRng.fill_bytes on a buffer of n bytes, as the k-th draw
RandomBytes(k, n) == [j \in 1..n |-> (k + j - 1) % 256]

\* a ^ b on bytes, bit by bit: p is the weight of the bit
XorBit(a, b, p) == (((a \div p) + (b \div p)) % 2) * p
XorBits(a, b) ==
    XorBit(a, b, 1) + XorBit(a, b, 2) + XorBit(a, b, 4) + XorBit(a, b, 8)
        + XorBit(a, b, 16) + XorBit(a, b, 32) + XorBit(a, b, 64) + XorBit(a, b, 128)
\* the same, tabulated once: XorTable[a + 1][b + 1] = a ^ b
XorTable == [a \in 1..256 |-> [b \in 1..256 |-> XorBits(a - 1, b - 1)] \o <<>>] \o <<>>
XorByte(a, b) == XorTable[a + 1][b + 1]

\* the key stream of a stream cipher under key and iv
KeyStreamByte(key, iv, j) ==
    (key[((j - 1) % Len(key)) + 1] + iv[((j - 1) % Len(iv)) + 1] + j) % 256
ApplyKeyStream(data, key, iv) ==
    [j \in 1..Len(data) |-> XorByte(data[j], KeyStreamByte(key, iv, j))]

\* the tag of the i-th sealed input
TagOf(i) == [j \in 1..TAG_SIZE |-> (i + j - 1) % 256]
Sealed(table, input) == \E i \in 1..Len(table) : table[i] = input
SealedIndex(table, input) ==
    IF Sealed(table, input)
    THEN CHOOSE i \in 1..Len(table) : table[i] = input
    ELSE Len(table) + 1
SealedInsert(table, input) ==
    IF Sealed(table, input) THEN table ELSE Append(table, input)

\* ChaCha20Poly1305::new_from_slice accepting a key of any length
ChaChaKeyAny(key) == TRUE

\* ChaCha20Poly1305::new_from_slice
ChaChaKeyOk(key) == Len(key) = CHACHA_KEY_SIZE

\* Aead::encrypt of ChaCha20Poly1305: body || tag, and the table afterwards
ChaChaEncrypt(table, key, nonce, aad, msg) ==
    LET body == ApplyKeyStream(msg, key, nonce)
        input == <<key, nonce, aad, body>>
    IN  [out |-> body \o TagOf(SealedIndex(table, input)),
         macs |-> SealedInsert(table, input)]

\* Aead::decrypt of ChaCha20Poly1305: the message, or the opaque aead::Error
ChaChaDecrypt(table, key, nonce, aad, ct) ==
    IF Len(ct) < TAG_SIZE THEN [ok |-> FALSE, val |-> <<>>]
    ELSE LET body == SubSeq(ct, 1, Len(ct) - TAG_SIZE)
             tag == SubSeq(ct, Len(ct) - TAG_SIZE + 1, Len(ct))
             input == <<key, nonce, aad, body>>
         IN  IF Sealed(table, input) /\ tag = TagOf(SealedIndex(table, input))
             THEN [ok |-> TRUE, val |-> ApplyKeyStream(body, key, nonce)]
             ELSE [ok |-> FALSE, val |-> <<>>]

\* Aes256SivAead::new_from_slice
SivKeyOk(key) == Len(key) = SIV_KEY_SIZE

\* Aead::encrypt of Aes256SivAead: the synthetic IV is computed from the key,
\* the associated data, the nonce and the message; the output is iv || body
SivEncrypt(table, key, nonce, aad, msg) ==
    LET input == <<key, nonce, aad, msg>>
        iv == TagOf(SealedIndex(table, input))
    IN  [out |-> iv \o ApplyKeyStream(msg, key, iv),
         sivs |-> SealedInsert(table, input)]

\* Aead::decrypt of Aes256SivAead: decrypts under the received IV, then
\* compares the IV with the one computed from the message obtained
SivDecrypt(table, key, nonce, aad, ct) ==
    IF Len(ct) < TAG_SIZE THEN [ok |-> FALSE, val |-> <<>>]
    ELSE LET iv == SubSeq(ct, 1, TAG_SIZE)
             msg == ApplyKeyStream(SubSeq(ct, TAG_SIZE + 1, Len(ct)), key, iv)
             input == <<key, nonce, aad, msg>>
         IN  IF Sealed(table, input) /\ iv = TagOf(SealedIndex(table, input))
             THEN [ok |-> TRUE, val |-> msg]
             ELSE [ok |-> FALSE, val |-> <<>>]

-----------------------------------------------------------------------------
(* The file system under the key directory.                                *)
(*                                                                         *)
(* A path is the sequence of its components; an absolute path starts with  *)
(* the root.  fs is [dirs, files, links]: the directories, the regular     *)
(* files [path, data, mode] and the symbolic links [path, target], each    *)
(* under its absolute path; a link keeps its target as it was given, and a *)
(* relative target is resolved against the directory that holds the link.  *)

RootDir == <<47>>                                           \* "/"
StrTmp == <<116, 109, 112>>                                 \* "tmp"
StrKeys == <<107, 101, 121, 115>>                           \* "keys"
StrCurrent == <<99, 117, 114, 114, 101, 110, 116>>          \* "current"
StrDotKey == <<46, 107, 101, 121>>                          \* ".key"
StrPepperKey == <<112, 101, 112, 112, 101, 114>> \o StrDotKey   \* "pepper.key"

\* the working directory of the process, and the key directory named by an
\* absolute and by a relative path
Cwd == <<RootDir, StrTmp>>
KeyDirAbsolute == <<RootDir, StrTmp, StrKeys>>
KeyDirRelative == <<StrKeys>>
KeyDirs == {KeyDirAbsolute, KeyDirRelative}

IsAbsolute(p) == Len(p) > 0 /\ p[1] = RootDir
Absolute(p, base) == IF IsAbsolute(p) THEN p ELSE base \o p
Parent(p) == SubSeq(p, 1, Len(p) - 1)
FileName(p) == p[Len(p)]
\* Path::join with a relative component
PathJoin(dir, name) == Append(dir, name)

EmptyFs == [dirs |-> {<<RootDir>>, Cwd}, files |-> {}, links |-> {}]

LinksAt(fs, a) == {l \in fs.links : l.path = a}
FilesAt(fs, a) == {f \in fs.files : f.path = a}
\* the path a names after following the link at a, if there is one
Follow(fs, a) ==
    IF LinksAt(fs, a) # {}
    THEN Absolute((CHOOSE l \in LinksAt(fs, a) : TRUE).target, Parent(a))
    ELSE a
\* Path::exists: follows links, false for a dangling link
PathExists(fs, p) ==
    LET a == Follow(fs, Absolute(p, Cwd))
    IN  a \in fs.dirs \/ FilesAt(fs, a) # {}
\* an entry (file, link or directory) is at the path itself
EntryAt(fs, a) == a \in fs.dirs \/ FilesAt(fs, a) # {} \/ LinksAt(fs, a) # {}

\* fs::create_dir_all
create_dir_all(fs, p) ==
    LET a == Absolute(p, Cwd)
    IN  [fs EXCEPT !.dirs = @ \cup {SubSeq(a, 1, n) : n \in 1..Len(a)}]

\* KeyProviderError::Io(e), by From<std::io::Error>
IoError(what) == Err("Io", what, <<>>)

\* write_key_file: File::create, write_all, set_permissions(0o600)
write_key_file(fs, path, key) ==
    LET a == Follow(fs, Absolute(path, Cwd))
    IN  IF Parent(a) \notin fs.dirs \/ a \in fs.dirs
        THEN [res |-> IoError("File::create"), fs |-> fs]
        ELSE [res |-> Ok(<<>>),
              fs |-> [fs EXCEPT !.files = (@ \ FilesAt(fs, a))
                         \cup {[path |-> a, data |-> key, mode |-> MODE_0600]}]]

\* create_symlink: std::os::unix::fs::symlink(target, link)
create_symlink(fs, target, link) ==
    LET a == Absolute(link, Cwd)
    IN  IF EntryAt(fs, a) \/ Parent(a) \notin fs.dirs
        THEN [res |-> IoError("symlink"), fs |-> fs]
        ELSE [res |-> Ok(<<>>),
              fs |-> [fs EXCEPT !.links = @ \cup {[path |-> a, target |-> target]}]]

\* fs::remove_file: removes the link itself, not its target
remove_file(fs, path) ==
    LET a == Absolute(path, Cwd)
    IN  IF FilesAt(fs, a) = {} /\ LinksAt(fs, a) = {}
        THEN [res |-> IoError("remove_file"), fs |-> fs]
        ELSE [res |-> Ok(<<>>),
              fs |-> [fs EXCEPT !.files = @ \ FilesAt(fs, a),
                                !.links = @ \ LinksAt(fs, a)]]

\* the names of the entries of a directory, as fs::read_dir lists them
DirEntries(fs, dir) ==
    LET d == Follow(fs, Absolute(dir, Cwd))
    IN  {FileName(e.path) : e \in {f \in fs.files \cup fs.links : Parent(f.path) = d}}

\* str::strip_prefix and str::strip_suffix: None, or Some(the rest)
StartsWith(s, pre) == Len(s) >= Len(pre) /\ SubSeq(s, 1, Len(pre)) = pre
EndsWith(s, suf) ==
    Len(s) >= Len(suf) /\ SubSeq(s, Len(s) - Len(suf) + 1, Len(s)) = suf
strip_prefix(s, pre) ==
    IF StartsWith(s, pre) THEN Some(SubSeq(s, Len(pre) + 1, Len(s))) ELSE None
strip_suffix(s, suf) ==
    IF EndsWith(s, suf) THEN Some(SubSeq(s, 1, Len(s) - Len(suf))) ELSE None

IsDigits(s) == Len(s) > 0 /\ \A i \in 1..Len(s) : s[i] >= 48 /\ s[i] <= 57
RECURSIVE DigitsValue(_)
DigitsValue(s) ==
    IF Len(s) = 0 THEN 0
    ELSE 10 * DigitsValue(SubSeq(s, 1, Len(s) - 1)) + (s[Len(s)] - 48)
\* str::parse::<u32>: None, or Some(the number); a leading "+" is accepted.
\* Numbers of up to nine digits, which all fit a u32; the model names no
\* file with more.
ParseU32(s) ==
    LET digits == IF Len(s) > 0 /\ s[1] = 43 THEN SubSeq(s, 2, Len(s)) ELSE s
    IN  IF IsDigits(digits) /\ Len(digits) <= 9
        THEN Some(DigitsValue(digits))
        ELSE None

-----------------------------------------------------------------------------
(* FileKeyProvider (sifredb-key-file).  A provider is [key_dir]; the file  *)
(* names the model builds hold no path separator, so joining one to the    *)
(* key directory adds one component.  Each operation takes the file        *)
(* system, the number of draws made from OsRng and the table of sealed     *)
(* inputs as far as it uses them, and returns its result with their new    *)
(* values.                                                                 *)

StrKekV == <<107, 101, 107, 95, 118>>                   \* "kek_v"

\* format!("{kek_id}.key")
KekFileName(kek_id) == kek_id \o StrDotKey

\* generate_random_key(size), as draw number rng + 1
generate_random_key(rng, size) == RandomBytes(rng + 1, size)

\* FileKeyProvider::init
FileKeyProviderInit(fs, rng, key_dir) ==
    LET fs1 == create_dir_all(fs, key_dir)
        kek_path == PathJoin(key_dir, KekFileName(StrKekV \o DecimalString(1)))
        w1 == write_key_file(fs1, kek_path, generate_random_key(rng, KEK_SIZE))
        l == create_symlink(w1.fs, kek_path, PathJoin(key_dir, StrCurrent))
        w2 == write_key_file(l.fs, PathJoin(key_dir, StrPepperKey),
                             generate_random_key(rng + 1, PEPPER_SIZE))
    IN  IF ~w1.res.ok THEN [res |-> w1.res, fs |-> w1.fs, rng |-> rng + 1]
        ELSE IF ~l.res.ok THEN [res |-> l.res, fs |-> l.fs, rng |-> rng + 1]
        ELSE [res |-> w2.res, fs |-> w2.fs, rng |-> rng + 2]

\* check_permissions: every regular file of the directory has mode 0600
check_permissions(fs, key_dir) ==
    LET d == Follow(fs, Absolute(key_dir, Cwd))
    IN  IF \E f \in fs.files : Parent(f.path) = d /\ f.mode # MODE_0600
        THEN Err("CreationFailed", "Insecure file permissions", <<>>)
        ELSE Ok(<<>>)

\* FileKeyProvider::new
FileKeyProviderNew(fs, key_dir) ==
    IF ~PathExists(fs, key_dir)
    THEN Err("CreationFailed", "Key directory does not exist", key_dir)
    ELSE IF ~PathExists(fs, PathJoin(key_dir, StrCurrent))
    THEN Err("NoActiveKek", "", <<>>)
    ELSE IF ~check_permissions(fs, key_dir).ok THEN check_permissions(fs, key_dir)
    ELSE Ok([key_dir |-> key_dir])

\* read_kek
read_kek(fs, provider, kek_id) ==
    LET kek_path == PathJoin(provider.key_dir, KekFileName(kek_id))
        a == Follow(fs, Absolute(kek_path, Cwd))
    IN  IF ~PathExists(fs, kek_path) THEN Err("KekNotFound", "", <<kek_id>>)
        ELSE IF FilesAt(fs, a) = {} THEN IoError("read_exact")
        ELSE LET data == (CHOOSE f \in FilesAt(fs, a) : TRUE).data
             IN  IF Len(data) < KEK_SIZE THEN IoError("read_exact")
                 ELSE Ok(SubSeq(data, 1, KEK_SIZE))

\* resolve_current_kek after its exists() check: fs::read_link, file_name,
\* strip_suffix(".key")
ReadCurrentLink(fs, provider) ==
    LET a == Absolute(PathJoin(provider.key_dir, StrCurrent), Cwd)
    IN  IF LinksAt(fs, a) = {} THEN IoError("read_link")
        ELSE LET target == (CHOOSE l \in LinksAt(fs, a) : TRUE).target
             IN  IF Len(target) = 0
                 THEN Err("CreationFailed", "Invalid current KEK symlink", <<>>)
                 ELSE IF strip_suffix(FileName(target), StrDotKey) = None
                 THEN Err("CreationFailed", "Invalid KEK filename format", <<>>)
                 ELSE Ok(strip_suffix(FileName(target), StrDotKey)[1])

\* resolve_current_kek
resolve_current_kek(fs, provider) ==
    IF ~PathExists(fs, PathJoin(provider.key_dir, StrCurrent))
    THEN Err("NoActiveKek", "", <<>>)
    ELSE ReadCurrentLink(fs, provider)

\* the versions N of the entries named kek_vN.key
KekVersions(fs, key_dir) ==
    LET stems == {strip_suffix(n, StrDotKey)[1] :
                    n \in {e \in DirEntries(fs, key_dir) :
                             StartsWith(e, StrKekV) /\ EndsWith(e, StrDotKey)
                                /\ Len(e) >= Len(StrKekV) + Len(StrDotKey)}}
        digits == {strip_prefix(s, StrKekV)[1] : s \in stems}
    IN  {ParseU32(d)[1] : d \in {x \in digits : ParseU32(x) # None}}

\* next_kek_version: the highest version of the directory, plus one
next_kek_version(fs, provider) ==
    IF ~PathExists(fs, provider.key_dir) THEN IoError("read_dir")
    ELSE LET versions == KekVersions(fs, provider.key_dir) \cup {0}
         IN  Ok((CHOOSE m \in versions : \A v \in versions : m >= v) + 1)

\* create_kek writing a new pepper.key along with the new KEK
create_kek_NewPepper(fs, rng, provider) ==
    LET version == next_kek_version(fs, provider)
        kek_id == StrKekV \o DecimalString(version.val)
        kek_path == PathJoin(provider.key_dir, KekFileName(kek_id))
        w == write_key_file(fs, kek_path, generate_random_key(rng, KEK_SIZE))
        p == write_key_file(w.fs, PathJoin(provider.key_dir, StrPepperKey),
                            generate_random_key(rng + 1, PEPPER_SIZE))
        current_link == PathJoin(provider.key_dir, StrCurrent)
        r == IF PathExists(p.fs, current_link) THEN remove_file(p.fs, current_link)
             ELSE [res |-> Ok(<<>>), fs |-> p.fs]
        l == create_symlink(r.fs, kek_path, current_link)
    IN  IF ~version.ok THEN [res |-> version, fs |-> fs, rng |-> rng]
        ELSE IF ~w.res.ok THEN [res |-> w.res, fs |-> w.fs, rng |-> rng + 1]
        ELSE IF ~r.res.ok THEN [res |-> r.res, fs |-> r.fs, rng |-> rng + 1]
        ELSE IF ~l.res.ok THEN [res |-> l.res, fs |-> l.fs, rng |-> rng + 1]
        ELSE [res |-> Ok(kek_id), fs |-> l.fs, rng |-> rng + 1]

\* KeyProvider::create_kek
create_kek(fs, rng, provider) ==
    LET version == next_kek_version(fs, provider)
        kek_id == StrKekV \o DecimalString(version.val)
        kek_path == PathJoin(provider.key_dir, KekFileName(kek_id))
        w == write_key_file(fs, kek_path, generate_random_key(rng, KEK_SIZE))
        current_link == PathJoin(provider.key_dir, StrCurrent)
        r == IF PathExists(w.fs, current_link) THEN remove_file(w.fs, current_link)
             ELSE [res |-> Ok(<<>>), fs |-> w.fs]
        l == create_symlink(r.fs, kek_path, current_link)
    IN  IF ~version.ok THEN [res |-> version, fs |-> fs, rng |-> rng]
        ELSE IF ~w.res.ok THEN [res |-> w.res, fs |-> w.fs, rng |-> rng + 1]
        ELSE IF ~r.res.ok THEN [res |-> r.res, fs |-> r.fs, rng |-> rng + 1]
        ELSE IF ~l.res.ok THEN [res |-> l.res, fs |-> l.fs, rng |-> rng + 1]
        ELSE [res |-> Ok(kek_id), fs |-> l.fs, rng |-> rng + 1]

\* KeyProvider::current_kek_id
current_kek_id(fs, provider) == resolve_current_kek(fs, provider)

\* KeyProvider::wrap_dek: nonce || ChaCha20-Poly1305(kek, nonce, dek)
wrap_dek(fs, rng, macs, provider, kek_id, dek) ==
    LET kek == read_kek(fs, provider, kek_id)
        nonce_bytes == RandomBytes(rng + 1, FILE_NONCE_SIZE)
        sealed == ChaChaEncrypt(macs, kek.val, nonce_bytes, <<>>, dek)
    IN  IF ~kek.ok THEN [res |-> kek, rng |-> rng, macs |-> macs]
        ELSE IF ~ChaChaKeyOk(kek.val)
        THEN [res |-> Err("WrapFailed", "Invalid KEK", <<>>), rng |-> rng, macs |-> macs]
        ELSE [res |-> Ok(nonce_bytes \o sealed.out), rng |-> rng + 1,
              macs |-> sealed.macs]

\* KeyProvider::unwrap_dek
unwrap_dek(fs, macs, provider, kek_id, wrapped_dek) ==
    LET kek == read_kek(fs, provider, kek_id)
        opened == ChaChaDecrypt(macs, kek.val, SubSeq(wrapped_dek, 1, FILE_NONCE_SIZE),
                                <<>>,
                                SubSeq(wrapped_dek, FILE_NONCE_SIZE + 1, Len(wrapped_dek)))
    IN  IF Len(wrapped_dek) < FILE_NONCE_SIZE
        THEN Err("UnwrapFailed", "Wrapped DEK too short", <<>>)
        ELSE IF ~kek.ok THEN kek
        ELSE IF ~ChaChaKeyOk(kek.val) THEN Err("UnwrapFailed", "Invalid KEK", <<>>)
        ELSE IF ~opened.ok THEN Err("UnwrapFailed", "Decryption failed", <<>>)
        ELSE Ok(opened.val)

\* KeyProvider::get_pepper of FileKeyProvider
get_pepper(fs, provider) ==
    LET pepper_path == PathJoin(provider.key_dir, StrPepperKey)
        a == Follow(fs, Absolute(pepper_path, Cwd))
    IN  IF ~PathExists(fs, pepper_path) THEN Ok(None)
        ELSE IF FilesAt(fs, a) = {} THEN IoError("read_exact")
        ELSE LET data == (CHOOSE f \in FilesAt(fs, a) : TRUE).data
             IN  IF Len(data) < PEPPER_SIZE THEN IoError("read_exact")
                 ELSE Ok(Some(SubSeq(data, 1, PEPPER_SIZE)))

-----------------------------------------------------------------------------
(* The MockKeyProvider of the vault's tests, and the calls a Vault or the  *)
(* blind index makes through the KeyProvider trait.  The mock is [keks,    *)
(* current_kek_id], keks being the set of its [id, key] entries; it wraps  *)
(* by XOR with the KEK and has the trait's default get_pepper.             *)

StrTestKek == <<116, 101, 115, 116, 95, 107, 101, 107>>     \* "test_kek"

\* MockKeyProvider::new
MockKeyProviderNew ==
    [keks |-> {[id |-> StrTestKek, key |-> Repeat(42, KEK_SIZE)]},
     current_kek_id |-> StrTestKek]

\* a MockKeyProvider that holds no KEK under its current id: its wrap_dek
\* and unwrap_dek fail with KekNotFound
MockKeyProviderEmpty == [keks |-> {}, current_kek_id |-> StrTestKek]

\* wrap_dek and unwrap_dek of the mock: the bytes XORed with the KEK, cycled
MockXorDek(provider, kek_id, data) ==
    LET found == {k \in provider.keks : k.id = kek_id}
    IN  IF found = {} THEN Err("KekNotFound", "", <<kek_id>>)
        ELSE LET kek == (CHOOSE k \in found : TRUE).key
             IN  Ok([j \in 1..Len(data) |->
                        XorByte(data[j], kek[((j - 1) % Len(kek)) + 1])])

IsFileKeyProvider(provider) == "key_dir" \in DOMAIN provider

\* provider.current_kek_id()
ProviderCurrentKekId(fs, provider) ==
    IF IsFileKeyProvider(provider) THEN current_kek_id(fs, provider)
    ELSE Ok(provider.current_kek_id)

\* provider.wrap_dek(kek_id, dek)
ProviderWrapDek(fs, rng, macs, provider, kek_id, dek) ==
    IF IsFileKeyProvider(provider) THEN wrap_dek(fs, rng, macs, provider, kek_id, dek)
    ELSE [res |-> MockXorDek(provider, kek_id, dek), rng |-> rng, macs |-> macs]

\* provider.unwrap_dek(kek_id, wrapped_dek)
ProviderUnwrapDek(fs, macs, provider, kek_id, wrapped_dek) ==
    IF IsFileKeyProvider(provider)
    THEN unwrap_dek(fs, macs, provider, kek_id, wrapped_dek)
    ELSE MockXorDek(provider, kek_id, wrapped_dek)

\* provider.get_pepper(): the trait's default method returns Ok(None)
ProviderGetPepper(fs, provider) ==
    IF IsFileKeyProvider(provider) THEN get_pepper(fs, provider) ELSE Ok(None)

\* Error::KeyProvider(e), by From<KeyProviderError>, as the ? operator applies it
FromKeyProviderError(r) ==
    [ok |-> FALSE, val |-> <<>>,
     err |-> [kind |-> "KeyProvider", inner |-> r.err.kind, msg |-> r.err.msg,
              detail |-> r.err.detail]]

-----------------------------------------------------------------------------
(* HMAC-SHA256 as an ideal keyed function: the output names the position   *)
(* of (key, message) among the inputs computed so far, so that two         *)
(* outputs are equal exactly when their inputs are.  A key shorter than    *)
(* the 64-byte block is padded with zeros, as HMAC does; Mac::update       *)
(* appends to the message.                                                 *)

BLIND_INDEX_SIZE == 16

HmacSha256(table, key, msg) ==
    LET input == [key |-> key \o Repeat(0, 64 - Len(key)), msg |-> msg]
    IN  [out |-> [j \in 1..32 |-> (SealedIndex(table, input) + j - 1) % 256],
         macs |-> SealedInsert(table, input)]

\* generate_blind_index without the mac.update of the context string
generate_blind_index_ValueOnly(fs, table, provider, value, context) ==
    LET pepper == ProviderGetPepper(fs, provider)
        mac == HmacSha256(table, pepper.val[1], value)
    IN  IF ~pepper.ok
        THEN [res |-> FromKeyProviderError(pepper), macs |-> table]
        ELSE IF pepper.val = None
        THEN [res |-> Err("IndexGenerationFailed", "Pepper not available", <<>>),
              macs |-> table]
        ELSE [res |-> Ok(SubSeq(mac.out, 1, BLIND_INDEX_SIZE)), macs |-> mac.macs]

\* generate_blind_index(provider, value, context): the index, and the HMAC
\* inputs afterwards
generate_blind_index(fs, table, provider, value, context) ==
    LET pepper == ProviderGetPepper(fs, provider)
        mac == HmacSha256(table, pepper.val[1],
                          value \o IndexCanonicalString(context))
    IN  IF ~pepper.ok
        THEN [res |-> FromKeyProviderError(pepper), macs |-> table]
        ELSE IF pepper.val = None
        THEN [res |-> Err("IndexGenerationFailed", "Pepper not available", <<>>),
              macs |-> table]
        ELSE [res |-> Ok(SubSeq(mac.out, 1, BLIND_INDEX_SIZE)), macs |-> mac.macs]

-----------------------------------------------------------------------------
(* The envelope vault (vault.rs) and the deterministic vault               *)
(* (deterministic.rs).                                                     *)

\* derive_dek with the KEK itself as the pseudorandom key (Hkdf::from_prk):
\* HKDF-Expand only
derive_dek_ExpandOnly(table, kek, context) ==
    LET info == CanonicalString(context)
        okm == HmacSha256(table, kek, info \o <<1>>)
    IN  [res |-> Ok(SubSeq(okm.out, 1, DEK_SIZE)), macs |-> okm.macs]

\* derive_dek(kek, context): HKDF-SHA256 with no salt.  Hkdf::new extracts
\* PRK = HMAC(32 zero bytes, kek); expand of 32 bytes is its first block,
\* HMAC(PRK, info || 0x01), and fails for no length up to 255 * 32.
derive_dek(table, kek, context) ==
    LET prk == HmacSha256(table, Repeat(0, 32), kek)
        info == CanonicalString(context)
        okm == HmacSha256(prk.macs, prk.out, info \o <<1>>)
    IN  [res |-> Ok(SubSeq(okm.out, 1, DEK_SIZE)), macs |-> okm.macs]

\* generate_dek, returning the zeroed buffer
generate_dek_Zeroed(rng) == Repeat(0, DEK_SIZE)

\* kdf::generate_dek, as draw number rng + 1
generate_dek(rng) == RandomBytes(rng + 1, DEK_SIZE)

\* a call made on the provider, with what it returned
ProviderCall(op, kek_id, out) == [op |-> op, kek_id |-> kek_id, out |-> out]

\* Vault::encrypt calling wrap_dek once more when the first call failed
VaultEncryptRetries(fs, rng, macs, provider, plaintext, context) ==
    LET dek == generate_dek(rng)
        kek_id == ProviderCurrentKekId(fs, provider)
        wrapped == ProviderWrapDek(fs, rng + 1, macs, provider, kek_id.val, dek)
        nonce_bytes == RandomBytes(wrapped.rng + 1, NONCE_SIZE)
        aad == CanonicalString(context)
        sealed == ChaChaEncrypt(wrapped.macs, dek, nonce_bytes, aad, plaintext)
        header == EncryptionHeaderNew(kek_id.val, wrapped.res.val, HeaderFlagsEmpty,
                                      nonce_bytes)
        header_bytes == to_bytes(header)
        current == ProviderCall("current_kek_id", <<>>, kek_id)
        wrap == ProviderCall("wrap_dek", kek_id.val, wrapped.res)
    IN  IF ~kek_id.ok
        THEN [res |-> FromKeyProviderError(kek_id), rng |-> rng + 1, macs |-> macs,
              calls |-> <<current>>]
        ELSE IF ~wrapped.res.ok
        THEN [res |-> FromKeyProviderError(wrapped.res), rng |-> wrapped.rng,
              macs |-> wrapped.macs, calls |-> <<current, wrap, wrap>>]
        ELSE IF ~ChaChaKeyOk(dek)
        THEN [res |-> Err("EncryptionFailed", "Invalid DEK", <<>>),
              rng |-> wrapped.rng + 1, macs |-> wrapped.macs,
              calls |-> <<current, wrap>>]
        ELSE IF ~header_bytes.ok
        THEN [res |-> header_bytes, rng |-> wrapped.rng + 1, macs |-> sealed.macs,
              calls |-> <<current, wrap>>]
        ELSE [res |-> Ok(header_bytes.val \o sealed.out), rng |-> wrapped.rng + 1,
              macs |-> sealed.macs, calls |-> <<current, wrap>>]

\* Vault::encrypt (CipherMode::ChaCha20Poly1305): the result, the draws and
\* the sealed inputs afterwards, and the calls made on the provider, in order
VaultEncrypt(fs, rng, macs, provider, plaintext, context) ==
    LET dek == generate_dek(rng)
        kek_id == ProviderCurrentKekId(fs, provider)
        wrapped == ProviderWrapDek(fs, rng + 1, macs, provider, kek_id.val, dek)
        nonce_bytes == RandomBytes(wrapped.rng + 1, NONCE_SIZE)
        aad == CanonicalString(context)
        sealed == ChaChaEncrypt(wrapped.macs, dek, nonce_bytes, aad, plaintext)
        header == EncryptionHeaderNew(kek_id.val, wrapped.res.val, HeaderFlagsEmpty,
                                      nonce_bytes)
        header_bytes == to_bytes(header)
        current == ProviderCall("current_kek_id", <<>>, kek_id)
        wrap == ProviderCall("wrap_dek", kek_id.val, wrapped.res)
    IN  IF ~kek_id.ok
        THEN [res |-> FromKeyProviderError(kek_id), rng |-> rng + 1, macs |-> macs,
              calls |-> <<current>>]
        ELSE IF ~wrapped.res.ok
        THEN [res |-> FromKeyProviderError(wrapped.res), rng |-> wrapped.rng,
              macs |-> wrapped.macs, calls |-> <<current, wrap>>]
        ELSE IF ~ChaChaKeyOk(dek)
        THEN [res |-> Err("EncryptionFailed", "Invalid DEK", <<>>),
              rng |-> wrapped.rng + 1, macs |-> wrapped.macs,
              calls |-> <<current, wrap>>]
        ELSE IF ~header_bytes.ok
        THEN [res |-> header_bytes, rng |-> wrapped.rng + 1, macs |-> sealed.macs,
              calls |-> <<current, wrap>>]
        ELSE [res |-> Ok(header_bytes.val \o sealed.out), rng |-> wrapped.rng + 1,
              macs |-> sealed.macs, calls |-> <<current, wrap>>]

\* Vault::decrypt, with the context string without its version as the
\* associated data
VaultDecryptIndexAad(fs, macs, provider, ciphertext, context) ==
    LET parsedHeader == from_bytes(ciphertext)
        header == parsedHeader.val.header
        encrypted_data == SubSeq(ciphertext, parsedHeader.val.consumed + 1,
                                 Len(ciphertext))
        dek == ProviderUnwrapDek(fs, macs, provider, header.kek_id,
                                 header.wrapped_dek)
        aad == IndexCanonicalString(IndexContextFrom(context))
        opened == ChaChaDecrypt(macs, dek.val, header.nonce, aad, encrypted_data)
    IN  IF ~parsedHeader.ok THEN parsedHeader
        ELSE IF ~dek.ok THEN FromKeyProviderError(dek)
        ELSE IF ~ChaChaKeyOk(dek.val) THEN Err("DecryptionFailed", "Invalid DEK", <<>>)
        ELSE IF Len(header.nonce) # NONCE_SIZE
        THEN Err("DecryptionFailed", "Invalid nonce size", <<>>)
        ELSE IF ~opened.ok THEN Err("AuthenticationFailed", "", <<>>)
        ELSE Ok(opened.val)

\* Vault::decrypt reporting a failed unwrap_dek as a failed authentication
VaultDecryptHidesProviderError(fs, macs, provider, ciphertext, context) ==
    LET parsedHeader == from_bytes(ciphertext)
        header == parsedHeader.val.header
        encrypted_data == SubSeq(ciphertext, parsedHeader.val.consumed + 1,
                                 Len(ciphertext))
        dek == ProviderUnwrapDek(fs, macs, provider, header.kek_id,
                                 header.wrapped_dek)
        aad == CanonicalString(context)
        opened == ChaChaDecrypt(macs, dek.val, header.nonce, aad, encrypted_data)
    IN  IF ~parsedHeader.ok THEN parsedHeader
        ELSE IF ~dek.ok THEN Err("AuthenticationFailed", "", <<>>)
        ELSE IF ~ChaChaKeyOk(dek.val) THEN Err("DecryptionFailed", "Invalid DEK", <<>>)
        ELSE IF Len(header.nonce) # NONCE_SIZE
        THEN Err("DecryptionFailed", "Invalid nonce size", <<>>)
        ELSE IF ~opened.ok THEN Err("AuthenticationFailed", "", <<>>)
        ELSE Ok(opened.val)

\* Vault::decrypt refusing a header whose deterministic flag is set
VaultDecryptChecksFlags(fs, macs, provider, ciphertext, context) ==
    LET parsedHeader == from_bytes(ciphertext)
        header == parsedHeader.val.header
        encrypted_data == SubSeq(ciphertext, parsedHeader.val.consumed + 1,
                                 Len(ciphertext))
        dek == ProviderUnwrapDek(fs, macs, provider, header.kek_id,
                                 header.wrapped_dek)
        aad == CanonicalString(context)
        opened == ChaChaDecrypt(macs, dek.val, header.nonce, aad, encrypted_data)
    IN  IF ~parsedHeader.ok THEN parsedHeader
        ELSE IF HeaderFlagsIsDeterministic(header.flags)
        THEN Err("DecryptionFailed", "Deterministic blob", <<>>)
        ELSE IF ~dek.ok THEN FromKeyProviderError(dek)
        ELSE IF ~ChaChaKeyOk(dek.val) THEN Err("DecryptionFailed", "Invalid DEK", <<>>)
        ELSE IF Len(header.nonce) # NONCE_SIZE
        THEN Err("DecryptionFailed", "Invalid nonce size", <<>>)
        ELSE IF ~opened.ok THEN Err("AuthenticationFailed", "", <<>>)
        ELSE Ok(opened.val)

\* Vault::decrypt (CipherMode::ChaCha20Poly1305)
VaultDecrypt(fs, macs, provider, ciphertext, context) ==
    LET parsedHeader == from_bytes(ciphertext)
        header == parsedHeader.val.header
        encrypted_data == SubSeq(ciphertext, parsedHeader.val.consumed + 1,
                                 Len(ciphertext))
        dek == ProviderUnwrapDek(fs, macs, provider, header.kek_id,
                                 header.wrapped_dek)
        aad == CanonicalString(context)
        opened == ChaChaDecrypt(macs, dek.val, header.nonce, aad, encrypted_data)
    IN  IF ~parsedHeader.ok THEN parsedHeader
        ELSE IF ~dek.ok THEN FromKeyProviderError(dek)
        ELSE IF ~ChaChaKeyOk(dek.val) THEN Err("DecryptionFailed", "Invalid DEK", <<>>)
        ELSE IF Len(header.nonce) # NONCE_SIZE
        THEN Err("DecryptionFailed", "Invalid nonce size", <<>>)
        ELSE IF ~opened.ok THEN Err("AuthenticationFailed", "", <<>>)
        ELSE Ok(opened.val)

\* DeterministicVault::new, rejecting only the keys shorter than 64 bytes
DeterministicVaultNewAtLeast(key) ==
    IF Len(key) < SIV_KEY_SIZE
    THEN Err("InvalidKeyLength", "", <<<<SIV_KEY_SIZE>>, <<Len(key)>>>>)
    ELSE Ok([key |-> key])

\* DeterministicVault::new
DeterministicVaultNew(key) ==
    IF Len(key) # SIV_KEY_SIZE
    THEN Err("InvalidKeyLength", "", <<<<SIV_KEY_SIZE>>, <<Len(key)>>>>)
    ELSE Ok([key |-> key])

\* Clone for DeterministicVault: a new SecretVec with the same bytes
DeterministicClone(vault) == [key |-> vault.key]

\* &Default::default(): the all-zero nonce
SivDefaultNonce == Repeat(0, SIV_NONCE_SIZE)

\* DeterministicVault::encrypt
DeterministicEncrypt(sivs, vault, plaintext, context) ==
    LET sealed == SivEncrypt(sivs, vault.key, SivDefaultNonce,
                             CanonicalString(context), plaintext)
    IN  IF ~SivKeyOk(vault.key)
        THEN [res |-> Err("Encryption", "Failed to create AES-SIV cipher", <<>>),
              sivs |-> sivs]
        ELSE [res |-> Ok(sealed.out), sivs |-> sealed.sivs]

\* DeterministicVault::decrypt
DeterministicDecrypt(sivs, vault, ciphertext, context) ==
    LET opened == SivDecrypt(sivs, vault.key, SivDefaultNonce,
                             CanonicalString(context), ciphertext)
    IN  IF ~SivKeyOk(vault.key)
        THEN Err("Decryption", "Failed to create AES-SIV cipher", <<>>)
        ELSE IF ~opened.ok THEN Err("Decryption", "AES-SIV decryption failed", <<>>)
        ELSE Ok(opened.val)

-----------------------------------------------------------------------------
(* The context builder as a state machine: two contexts are built with     *)
(* new, with_tenant and with_version and then formatted.                   *)

\* a call and what it returned: on blob i (or 0), with the byte at pos changed
\* (or 0), under the context ctx, on the bytes data
NoContext == EncryptionContextNew(StrA, StrA)
CallAt(op, i, pos, ctx, data, out) ==
    [op |-> op, i |-> i, pos |-> pos, ctx |-> ctx, data |-> data, out |-> out,
     calls |-> <<>>]
Call(op, i, ctx, data, out) == CallAt(op, i, 0, ctx, data, out)
NoCall == Call("none", 0, NoContext, <<>>, Ok(<<>>))

\* the threads that call the provider at the same time, and a thread in no call
Threads == {1, 2}
ThreadIdle ==
    [op |-> "none", pc |-> "idle", kek_id |-> <<>>, key |-> <<>>, out |-> Ok(<<>>)]

CtxIdle == ctxA = EncryptionContextNew(StrA, StrA) /\ ctxB = ctxA /\ strs = <<>>
HdrIdle == hdr = None /\ wire = None /\ parsed = None
VaultIdle ==
    /\ disk = EmptyFs
    /\ draws = 0
    /\ sealedChaCha = <<>>
    /\ sealedSiv = <<>>
    /\ fileProvider = None
    /\ det = None
    /\ blobs = <<>>
    /\ res = NoCall
    /\ hmacs = <<>>
    /\ threads = [t \in Threads |-> ThreadIdle]

InitContext ==
    /\ \E t \in Names, c \in Names : ctxA = EncryptionContextNew(t, c)
    /\ \E t \in Names, c \in Names : ctxB = EncryptionContextNew(t, c)
    /\ strs = <<>>
    /\ HdrIdle
    /\ VaultIdle

WithTenantA(t) ==
    /\ ctxA' = with_tenant(ctxA, t)
    /\ strs' = <<>>
    /\ UNCHANGED <<ctxB, hdrVars, vaultVars>>

WithTenantB(t) ==
    /\ ctxB' = with_tenant(ctxB, t)
    /\ strs' = <<>>
    /\ UNCHANGED <<ctxA, hdrVars, vaultVars>>

WithVersionA(v) ==
    /\ ctxA' = with_version(ctxA, v)
    /\ strs' = <<>>
    /\ UNCHANGED <<ctxB, hdrVars, vaultVars>>

WithVersionB(v) ==
    /\ ctxB' = with_version(ctxB, v)
    /\ strs' = <<>>
    /\ UNCHANGED <<ctxA, hdrVars, vaultVars>>

\* to_string on both contexts
FormatContexts ==
    /\ strs = <<>>
    /\ strs' = <<CanonicalString(ctxA), CanonicalString(ctxB)>>
    /\ UNCHANGED <<ctxA, ctxB, hdrVars, vaultVars>>

NextContext ==
    \/ \E t \in Tenants : WithTenantA(t)
    \/ \E t \in Tenants : WithTenantB(t)
    \/ \E v \in Versions : WithVersionA(v)
    \/ \E v \in Versions : WithVersionB(v)
    \/ FormatContexts

SpecContext == InitContext /\ [][NextContext]_vars

(* C3: any two EncryptionContext values that differ in at least one field   *)
(* (an absent tenant differing from every present one) have different      *)
(* canonical strings.                                                      *)
C3_DistinctContextsDistinctStrings ==
    (strs # <<>> /\ ctxA # ctxB) => strs[1] # strs[2]


-----------------------------------------------------------------------------
(* The header codec as a state machine: a header is built with new,        *)
(* serialized with to_bytes, and the bytes (whole, cut short, or with      *)
(* another version byte) are parsed with from_bytes.                       *)

StrEAcute == <<195, 169>>                               \* U+00E9, two bytes

\* the arguments of EncryptionHeader::new: short fields of every length,
\* each field at and just over the length its prefix can hold, and the
\* header of test_header_serialization
HeaderInputs ==
    { <<Repeat(97, k), Repeat(7, w), f, Repeat(9, n)>> :
        k \in 0..SmallLen, w \in 0..SmallLen, f \in {0, 1, 255}, n \in 0..SmallLen }
    \cup { <<Repeat(97, k), <<>>, 0, <<>>>> : k \in {KEK_ID_MAX_LEN, KEK_ID_MAX_LEN + 1} }
    \cup { <<StrA, Repeat(7, w), 0, <<>>>> :
             w \in {WRAPPED_DEK_MAX_LEN, WRAPPED_DEK_MAX_LEN + 1} }
    \cup { <<StrA, <<>>, 1, Repeat(9, n)>> : n \in {NONCE_MAX_LEN, NONCE_MAX_LEN + 1} }
    \cup { <<Repeat(97, KEK_ID_MAX_LEN), Repeat(7, WRAPPED_DEK_MAX_LEN), 1,
             Repeat(9, NONCE_MAX_LEN)>> }
    \cup { <<StrKekV \o DecimalString(1), <<1, 2, 3, 4>>, 0, [i \in 1..12 |-> 4 + i]>>,
           <<StrEAcute, <<0, 1>>, 1, <<255>>>> }

\* the version bytes a parsed input is given instead of PROTOCOL_VERSION
OtherVersions == {0, 2, 99, 255}

InitHeader ==
    /\ CtxIdle
    /\ HdrIdle
    /\ VaultIdle

HeaderNew(inp) ==
    /\ hdr = None
    /\ hdr' = Some(EncryptionHeaderNew(inp[1], inp[2], inp[3], inp[4]))
    /\ UNCHANGED <<wire, parsed, ctxVars, vaultVars>>

ToBytes ==
    /\ hdr # None
    /\ wire = None
    /\ wire' = Some(to_bytes(hdr[1]))
    /\ UNCHANGED <<hdr, parsed, ctxVars, vaultVars>>

Serialized == wire # None /\ wire[1].ok

\* from_bytes on the serialized header
FromBytesWhole ==
    /\ Serialized
    /\ parsed = None
    /\ parsed' = Some([how |-> "whole", input |-> wire[1].val,
                       res |-> from_bytes(wire[1].val)])
    /\ UNCHANGED <<hdr, wire, ctxVars, vaultVars>>

\* from_bytes on the first n bytes of the serialized header
FromBytesPrefix(n) ==
    /\ Serialized
    /\ parsed = None
    /\ n < Len(wire[1].val)
    /\ parsed' = Some([how |-> "prefix", input |-> SubSeq(wire[1].val, 1, n),
                       res |-> from_bytes(SubSeq(wire[1].val, 1, n))])
    /\ UNCHANGED <<hdr, wire, ctxVars, vaultVars>>

\* from_bytes on the serialized header with its first byte replaced by v
FromBytesVersion(v) ==
    /\ Serialized
    /\ parsed = None
    /\ LET data == [wire[1].val EXCEPT ![1] = v]
       IN  parsed' = Some([how |-> "version", input |-> data, res |-> from_bytes(data)])
    /\ UNCHANGED <<hdr, wire, ctxVars, vaultVars>>

NextHeader ==
    \/ \E inp \in HeaderInputs : HeaderNew(inp)
    \/ ToBytes
    \/ FromBytesWhole
    \/ \E n \in 0..MaxPrefix : FromBytesPrefix(n)
    \/ (Serialized /\ FromBytesPrefix(Len(wire[1].val) - 1))
    \/ \E v \in OtherVersions : FromBytesVersion(v)

SpecHeader == InitHeader /\ [][NextHeader]_vars

WithinLimits(h) ==
    /\ Len(h.kek_id) <= 255
    /\ Len(h.wrapped_dek) <= 65535
    /\ Len(h.nonce) <= 255

(* C6: for every header H built by new whose kek_id has at most 255 bytes, *)
(* whose wrapped_dek has at most 65535 bytes and whose nonce has at most   *)
(* 255 bytes, to_bytes succeeds and from_bytes of its bytes returns H,     *)
(* equal in every field, and the length of the bytes.                      *)
C6_HeaderRoundTrip ==
    /\ (wire # None /\ WithinLimits(hdr[1])) => wire[1].ok
    /\ (parsed # None /\ parsed[1].how = "whole") =>
          parsed[1].res = Ok([header |-> hdr[1], consumed |-> Len(wire[1].val)])

C6_Witness ==
    /\ parsed # None
    /\ parsed[1].how = "whole"
    /\ parsed[1].res.ok
    /\ Len(hdr[1].kek_id) = 255
    /\ Len(hdr[1].wrapped_dek) = 65535
    /\ Len(hdr[1].nonce) = 255
    /\ hdr[1].flags = 1

(* C7: from_bytes rejects the empty input and every strict prefix of a     *)
(* serialized header with InvalidHeader, and a successful parse consumes   *)
(* no more bytes than the input holds.                                     *)
C7_TruncationRejected ==
    parsed # None =>
        /\ parsed[1].how = "prefix" =>
              (~parsed[1].res.ok /\ parsed[1].res.err.kind = "InvalidHeader")
        /\ parsed[1].input = <<>> =>
              (~parsed[1].res.ok /\ parsed[1].res.err.kind = "InvalidHeader")
        /\ parsed[1].res.ok => parsed[1].res.val.consumed <= Len(parsed[1].input)

C7_Witness ==
    /\ parsed # None
    /\ parsed[1].how = "prefix"
    /\ Len(parsed[1].input) = 27
    /\ parsed[1].res.err.msg = "Nonce truncated"

(* C9: to_bytes fails, with InvalidHeader, exactly when kek_id is longer   *)
(* than 255 bytes, wrapped_dek longer than 65535 bytes or nonce longer     *)
(* than 255 bytes; when it succeeds the three length prefixes it wrote     *)
(* equal the lengths of the fields.                                        *)
C9_ToBytesLengthLimits ==
    wire # None =>
        LET h == hdr[1]
            r == wire[1]
            k == Len(h.kek_id)
            w == Len(h.wrapped_dek)
        IN  /\ r.ok <=> WithinLimits(h)
            /\ ~r.ok => r.err.kind = "InvalidHeader"
            /\ r.ok => /\ r.val[2] = k
                       /\ r.val[3 + k] * 256 + r.val[4 + k] = w
                       /\ r.val[6 + k + w] = Len(h.nonce)
                       /\ Len(r.val) = 6 + k + w + Len(h.nonce)

C9_Witness ==
    /\ wire # None
    /\ wire[1].ok
    /\ Len(hdr[1].kek_id) = 255
    /\ Len(hdr[1].wrapped_dek) = 65535
    /\ Len(hdr[1].nonce) = 255


-----------------------------------------------------------------------------
(* The vaults as a state machine.  A run works either with a key           *)
(* directory, a FileKeyProvider and the envelope Vault over it, or with a  *)
(* DeterministicVault; the two share no state.  The key directory is       *)
(* initialized once, under its absolute or its relative path, and the      *)
(* provider is opened under either path.  blobs keeps every blob a vault   *)
(* returned, with the plaintext and the context it was made from; res is   *)
(* the latest call and what it returned.  The calls that change nothing    *)
(* (decrypt, current_kek_id) end a run: whatever may follow them may       *)
(* follow the state they were made in.                                     *)

\* the plaintexts: the empty one and one of two bytes
Plaintexts == {<<>>, <<104, 105>>}

\* the contexts blobs are encrypted under: a plain one, one with every field
\* set, one whose table name holds "|"
EncryptContexts ==
    { EncryptionContextNew(StrA, StrA),
      with_version(with_tenant(EncryptionContextNew(StrA, StrA), StrA), 2),
      EncryptionContextNew(StrAPipeA, StrA) }

\* the contexts blobs are decrypted under: those, and the plain one with the
\* tenant "default", with another tenant, with another version, and with the
\* "|" in the column name
DefaultTenantContext == with_tenant(EncryptionContextNew(StrA, StrA), StrDefault)
VaultContexts ==
    EncryptContexts \cup
    { DefaultTenantContext,
      with_tenant(EncryptionContextNew(StrA, StrA), StrA),
      with_version(EncryptionContextNew(StrA, StrA), 2),
      EncryptionContextNew(StrA, StrAPipeA) }

\* the keys given to DeterministicVault::new: of 64 bytes, and of 0, 32, 63
\* and 65 bytes
DeterministicKeys == {Repeat(66, n) : n \in {0, 32, 63, 64, 65}}

\* the bits flipped in a changed byte
ByteMasks == {1, 3, 128, 255}

\* the calls that leave the state as it is
Observers ==
    {"decrypt", "current_kek_id", "det_decrypt", "decrypt_changed",
     "det_decrypt_changed", "unwrap_dek"}
Running == res.op \notin Observers

InitVault ==
    /\ CtxIdle
    /\ HdrIdle
    /\ VaultIdle

\* FileKeyProvider::init(key_dir)
KeyInit(key_dir) ==
    /\ Running
    /\ det = None
    /\ ~EntryAt(disk, KeyDirAbsolute)
    /\ LET r == FileKeyProviderInit(disk, draws, key_dir)
       IN  /\ disk' = r.fs
           /\ draws' = r.rng
           /\ res' = Call("init", 0, NoContext, <<>>, r.res)
    /\ UNCHANGED <<sealedChaCha, sealedSiv, fileProvider, det, blobs,
                   ctxVars, hdrVars, hmacs, threads>>

\* Vault::new(FileKeyProvider::new(key_dir)?, CipherMode::default())
ProviderNew(key_dir) ==
    /\ Running
    /\ det = None
    /\ IF fileProvider = None THEN TRUE ELSE ~IsFileKeyProvider(fileProvider[1])
    /\ LET r == FileKeyProviderNew(disk, key_dir)
       IN  /\ fileProvider' = IF r.ok THEN Some(r.val) ELSE fileProvider
           /\ res' = Call("new", 0, NoContext, <<>>, IF r.ok THEN Ok(<<>>) ELSE r)
    /\ UNCHANGED <<disk, draws, sealedChaCha, sealedSiv, det, blobs,
                   ctxVars, hdrVars, hmacs, threads>>

\* vault.encrypt on a vault that rotates the KEK of its provider at each call
EncryptRotates(plaintext, context) ==
    /\ Running
    /\ fileProvider # None
    /\ IsFileKeyProvider(fileProvider[1])
    /\ Len(blobs) < MaxBlobs
    /\ draws + 4 <= MaxDraws
    /\ LET k == create_kek(disk, draws, fileProvider[1])
           r == VaultEncrypt(k.fs, k.rng, sealedChaCha, fileProvider[1], plaintext, context)
       IN  /\ disk' = k.fs
           /\ draws' = r.rng
           /\ sealedChaCha' = r.macs
           /\ blobs' = IF r.res.ok
                       THEN Append(blobs, [p |-> plaintext, c |-> context,
                                           blob |-> r.res.val])
                       ELSE blobs
           /\ res' = [Call("encrypt", IF r.res.ok THEN Len(blobs) + 1 ELSE 0,
                           context, plaintext, r.res) EXCEPT !.calls = r.calls]
    /\ UNCHANGED <<sealedSiv, fileProvider, det,
                   ctxVars, hdrVars, hmacs, threads>>

\* vault.encrypt(plaintext, context)
Encrypt(plaintext, context) ==
    /\ Running
    /\ fileProvider # None
    /\ Len(blobs) < MaxBlobs
    /\ draws + 3 <= MaxDraws
    /\ LET r == VaultEncrypt(disk, draws, sealedChaCha, fileProvider[1], plaintext, context)
       IN  /\ draws' = r.rng
           /\ sealedChaCha' = r.macs
           /\ blobs' = IF r.res.ok
                       THEN Append(blobs, [p |-> plaintext, c |-> context,
                                           blob |-> r.res.val])
                       ELSE blobs
           /\ res' = [Call("encrypt", IF r.res.ok THEN Len(blobs) + 1 ELSE 0,
                           context, plaintext, r.res) EXCEPT !.calls = r.calls]
    /\ UNCHANGED <<disk, sealedSiv, fileProvider, det,
                   ctxVars, hdrVars, hmacs, threads>>

\* vault.decrypt(blob i, context)
Decrypt(i, context) ==
    /\ Running
    /\ fileProvider # None
    /\ i \in 1..Len(blobs)
    /\ res' = Call("decrypt", i, context, blobs[i].blob,
                   VaultDecrypt(disk, sealedChaCha, fileProvider[1], blobs[i].blob, context))
    /\ UNCHANGED <<disk, draws, sealedChaCha, sealedSiv, fileProvider, det, blobs,
                   ctxVars, hdrVars, hmacs, threads>>

\* provider.create_kek() of the FileKeyProvider
CreateKek ==
    /\ Running
    /\ IF fileProvider = None THEN FALSE ELSE IsFileKeyProvider(fileProvider[1])
    /\ draws + 1 <= MaxDraws
    /\ LET r == create_kek(disk, draws, fileProvider[1])
       IN  /\ disk' = r.fs
           /\ draws' = r.rng
           /\ res' = Call("create_kek", 0, NoContext, <<>>, r.res)
    /\ UNCHANGED <<sealedChaCha, sealedSiv, fileProvider, det, blobs,
                   ctxVars, hdrVars, hmacs, threads>>

\* provider.current_kek_id()
CurrentKekId ==
    /\ Running
    /\ fileProvider # None
    /\ res' = Call("current_kek_id", 0, NoContext, <<>>,
                   ProviderCurrentKekId(disk, fileProvider[1]))
    /\ UNCHANGED <<disk, draws, sealedChaCha, sealedSiv, fileProvider, det, blobs,
                   ctxVars, hdrVars, hmacs, threads>>

\* DeterministicVault::new(key)
DeterministicNew(key) ==
    /\ Running
    /\ det = None
    /\ fileProvider = None
    /\ disk = EmptyFs
    /\ LET r == DeterministicVaultNew(key)
       IN  /\ det' = IF r.ok THEN Some(r.val) ELSE None
           /\ res' = Call("det_new", 0, NoContext, key, IF r.ok THEN Ok(<<>>) ELSE r)
    /\ UNCHANGED <<disk, draws, sealedChaCha, sealedSiv, fileProvider, blobs,
                   ctxVars, hdrVars, hmacs, threads>>

\* det.encrypt(plaintext, context), on the vault or on a clone of it
DetEncrypt(plaintext, context) ==
    /\ Running
    /\ det # None
    /\ Len(blobs) < MaxBlobs
    /\ \E vault \in {det[1], DeterministicClone(det[1])} :
       LET r == DeterministicEncrypt(sealedSiv, vault, plaintext, context)
       IN  /\ sealedSiv' = r.sivs
           /\ blobs' = IF r.res.ok
                       THEN Append(blobs, [p |-> plaintext, c |-> context,
                                           blob |-> r.res.val])
                       ELSE blobs
           /\ res' = Call("det_encrypt", IF r.res.ok THEN Len(blobs) + 1 ELSE 0,
                          context, plaintext, r.res)
    /\ UNCHANGED <<disk, draws, sealedChaCha, fileProvider, det,
                   ctxVars, hdrVars, hmacs, threads>>

\* det.decrypt(blob i, context)
DetDecrypt(i, context) ==
    /\ Running
    /\ det # None
    /\ i \in 1..Len(blobs)
    /\ res' = Call("det_decrypt", i, context, blobs[i].blob,
                   DeterministicDecrypt(sealedSiv, det[1], blobs[i].blob, context))
    /\ UNCHANGED <<disk, draws, sealedChaCha, sealedSiv, fileProvider, det, blobs,
                   ctxVars, hdrVars, hmacs, threads>>

\* det.decrypt(blob i with the byte at pos XORed with mask, the context of blob i)
DetDecryptChanged(i, pos, mask) ==
    /\ Running
    /\ det # None
    /\ i \in 1..Len(blobs)
    /\ pos \in 1..Len(blobs[i].blob)
    /\ LET data == [blobs[i].blob EXCEPT ![pos] = XorByte(@, mask)]
       IN  res' = CallAt("det_decrypt_changed", i, pos, blobs[i].c, data,
                         DeterministicDecrypt(sealedSiv, det[1], data, blobs[i].c))
    /\ UNCHANGED <<disk, draws, sealedChaCha, sealedSiv, fileProvider, det, blobs,
                   ctxVars, hdrVars, hmacs, threads>>

NextVault ==
    \/ \E d \in KeyDirs : KeyInit(d)
    \/ \E d \in KeyDirs : ProviderNew(d)
    \/ \E p \in Plaintexts, c \in EncryptContexts : Encrypt(p, c)
    \/ \E i \in 1..MaxBlobs, c \in VaultContexts : Decrypt(i, c)
    \/ CreateKek
    \/ CurrentKekId
    \/ \E k \in DeterministicKeys : DeterministicNew(k)
    \/ \E p \in Plaintexts, c \in EncryptContexts \cup {DefaultTenantContext} :
          DetEncrypt(p, c)
    \/ \E i \in 1..MaxBlobs, c \in VaultContexts : DetDecrypt(i, c)
    \/ \E pos \in 1..(TAG_SIZE + 2), mask \in ByteMasks :
          DetDecryptChanged(Len(blobs), pos, mask)

Spec == InitVault /\ [][NextVault]_vars

-----------------------------------------------------------------------------
(* Changed blobs.  A run initializes the key directory, opens the vault,   *)
(* encrypts and rotates as above, and then decrypts the latest blob with   *)
(* one byte changed, under the context the blob was encrypted with.        *)

\* the positions (from 1) of the fields of a blob whose header is h
KekIdLenPosition == 2
WrappedDekLenPositions(h) == {3 + Len(h.kek_id), 4 + Len(h.kek_id)}
FlagsPosition(h) == 5 + Len(h.kek_id) + Len(h.wrapped_dek)
NonceLenPosition(h) == 6 + Len(h.kek_id) + Len(h.wrapped_dek)
LengthPositions(h) ==
    {KekIdLenPosition, NonceLenPosition(h)} \cup WrappedDekLenPositions(h)

\* vault.decrypt(blob i with the byte at pos XORed with mask, the context of blob i)
DecryptChanged(i, pos, mask) ==
    /\ Running
    /\ fileProvider # None
    /\ i \in 1..Len(blobs)
    /\ pos \in 1..Len(blobs[i].blob)
    /\ LET data == [blobs[i].blob EXCEPT ![pos] = XorByte(@, mask)]
       IN  res' = CallAt("decrypt_changed", i, pos, blobs[i].c, data,
                         VaultDecrypt(disk, sealedChaCha, fileProvider[1], data,
                                      blobs[i].c))
    /\ UNCHANGED <<disk, draws, sealedChaCha, sealedSiv, fileProvider, det, blobs,
                   ctxVars, hdrVars, hmacs, threads>>

\* every byte of the latest blob, with some bits flipped
DecryptChangedByte ==
    /\ blobs # <<>>
    /\ \E pos \in 1..Len(blobs[Len(blobs)].blob), mask \in ByteMasks :
          DecryptChanged(Len(blobs), pos, mask)

\* the version byte of the latest blob, with every other value
DecryptChangedVersion ==
    /\ blobs # <<>>
    /\ \E mask \in 1..255 : DecryptChanged(Len(blobs), 1, mask)

NextTamper ==
    \/ KeyInit(KeyDirAbsolute)
    \/ ProviderNew(KeyDirAbsolute)
    \/ \E p \in Plaintexts : Encrypt(p, NoContext)
    \/ CreateKek
    \/ DecryptChangedByte
    \/ DecryptChangedVersion

SpecTamper == InitVault /\ [][NextTamper]_vars

-----------------------------------------------------------------------------
(* Properties of the vaults.                                               *)

\* what the vault returns now for blob i under the context c
DecryptNow(i, c) == VaultDecrypt(disk, sealedChaCha, fileProvider[1], blobs[i].blob, c)
\* the header of blob i, and the DEK its wrapped_dek unwraps to now
BlobHeader(i) == from_bytes(blobs[i].blob).val.header
BlobDek(i) ==
    unwrap_dek(disk, sealedChaCha, fileProvider[1], BlobHeader(i).kek_id,
               BlobHeader(i).wrapped_dek)

(* C1: for every plaintext P, the empty one included, and every context C, *)
(* decrypt(encrypt(P, C), C) returns exactly P, with the envelope Vault    *)
(* over a key provider and with the DeterministicVault.                    *)
C1_RoundTrip ==
    /\ (res.op = "decrypt" /\ res.ctx = blobs[res.i].c)
          => res.out = Ok(blobs[res.i].p)
    /\ (res.op = "det_decrypt" /\ res.ctx = blobs[res.i].c)
          => res.out = Ok(blobs[res.i].p)

C1_Witness ==
    /\ res.op = "decrypt"
    /\ res.ctx = blobs[res.i].c
    /\ blobs[res.i].p = <<104, 105>>
    /\ res.out = Ok(<<104, 105>>)

(* C2: for every plaintext P and every two contexts C1 and C2 that differ  *)
(* in at least one field, Vault.decrypt(Vault.encrypt(P, C1), C2) fails    *)
(* with AuthenticationFailed and returns no plaintext.                     *)
C2_WrongContextFails ==
    (res.op = "decrypt" /\ res.ctx # blobs[res.i].c)
        => (~res.out.ok /\ res.out.err.kind = "AuthenticationFailed")

(* C5: two successive calls Vault.encrypt(P, C) on the same vault return   *)
(* two different blobs, each made with a DEK and a nonce that no earlier   *)
(* call used, and both blobs decrypt under C to P.                         *)
C5_FreshDekAndNonce ==
    (res.op = "encrypt" /\ res.out.ok) =>
        \A i \in 1..(Len(blobs) - 1) :
            LET j == Len(blobs)
            IN  /\ blobs[i].blob # blobs[j].blob
                /\ BlobHeader(i).nonce # BlobHeader(j).nonce
                /\ BlobDek(i).ok /\ BlobDek(j).ok
                /\ BlobDek(i).val # BlobDek(j).val
                /\ DecryptNow(i, blobs[i].c) = Ok(blobs[i].p)
                /\ DecryptNow(j, blobs[j].c) = Ok(blobs[j].p)

C5_Witness ==
    /\ res.op = "encrypt" /\ res.out.ok
    /\ Len(blobs) = 2
    /\ blobs[1].p = blobs[2].p
    /\ blobs[1].c = blobs[2].c
    /\ blobs[1].blob # blobs[2].blob

\* the ids of the KEK files of the key directory
KekIds == {StrKekV \o DecimalString(v) : v \in KekVersions(disk, fileProvider[1].key_dir)}
\* wrap_dek under kek_id succeeds and unwrap_dek under kek_id inverts it
KekIdValid(kek_id) ==
    LET dek == generate_dek(draws)
        wrapped == wrap_dek(disk, draws + 1, sealedChaCha, fileProvider[1], kek_id, dek)
    IN  /\ wrapped.res.ok
        /\ unwrap_dek(disk, wrapped.macs, fileProvider[1], kek_id, wrapped.res.val)
              = Ok(dek)

(* C10: after create_kek returns the id K on an initialized key directory, *)
(* current_kek_id returns K and a new Vault.encrypt blob carries K in its  *)
(* header, every KEK id of the directory is valid for wrap_dek and         *)
(* unwrap_dek, and every blob encrypted earlier still decrypts to its      *)
(* plaintext, after any number of rotations.                               *)
C10_KeyRotation ==
    (res.op = "create_kek" /\ res.out.ok) =>
        LET encrypted == VaultEncrypt(disk, draws, sealedChaCha, fileProvider[1],
                                      <<104, 105>>, NoContext)
        IN  /\ current_kek_id(disk, fileProvider[1]) = Ok(res.out.val)
            /\ encrypted.res.ok
            /\ from_bytes(encrypted.res.val).val.header.kek_id = res.out.val
            /\ \A kek_id \in KekIds : KekIdValid(kek_id)
            /\ \A i \in 1..Len(blobs) : DecryptNow(i, blobs[i].c) = Ok(blobs[i].p)

\* the same, for a vault whose provider was opened under the absolute path
\* of a key directory that was initialized under its absolute path
RotationUnderAbsolutePath ==
    (/\ fileProvider # None
     /\ fileProvider[1].key_dir = KeyDirAbsolute
     /\ \A l \in disk.links : IsAbsolute(l.target)) => C10_KeyRotation

-----------------------------------------------------------------------------
(* Properties of changed blobs.                                            *)

(* C4: for every blob B = Vault.encrypt(P, C) and every change of one byte *)
(* of B outside the length fields of the header (the version byte, the     *)
(* flags byte and the bytes of the ciphertext and the tag included),       *)
(* Vault.decrypt(changed B, C) returns an error, never Ok.                 *)
C4_ChangedByteRejected ==
    (res.op = "decrypt_changed" /\ res.pos \notin LengthPositions(BlobHeader(res.i)))
        => ~res.out.ok

\* the same without the flags byte; and changing the flags byte returns the
\* plaintext of the blob
ChangedByteRejectedButFlags ==
    (res.op = "decrypt_changed" /\ res.pos \notin LengthPositions(BlobHeader(res.i)))
        => IF res.pos = FlagsPosition(BlobHeader(res.i))
           THEN res.out = Ok(blobs[res.i].p)
           ELSE ~res.out.ok

(* C8: from_bytes accepts only the protocol version 1: for an otherwise    *)
(* well-formed header whose leading byte v is not 1 it fails with          *)
(* UnsupportedVersion carrying version = v and supported = "1", and so     *)
(* does Vault.decrypt of such a blob.                                      *)
C8_UnsupportedVersion ==
    /\ (res.op = "decrypt_changed" /\ res.pos = 1) =>
          /\ res.data[1] # 1
          /\ from_bytes(res.data)
                = Err("UnsupportedVersion", "", <<<<res.data[1]>>, <<49>>>>)
          /\ res.out = Err("UnsupportedVersion", "", <<<<res.data[1]>>, <<49>>>>)
    /\ (res.op = "encrypt" /\ res.out.ok) =>
          (res.out.val[1] = 1 /\ from_bytes(res.out.val).ok)

C8_Witness ==
    /\ res.op = "decrypt_changed"
    /\ res.pos = 1
    /\ res.data[1] = 0
    /\ res.out.err.kind = "UnsupportedVersion"

-----------------------------------------------------------------------------
(* Concurrent calls on one FileKeyProvider.  The provider holds only its   *)
(* key_dir and takes no lock, so two threads that call it at the same time *)
(* interleave at the file-system calls their operations make.  A thread    *)
(* runs create_kek or current_kek_id: each step below is one part of the   *)
(* operation, run without interruption, and another thread may run between *)
(* two steps.                                                              *)

\* create_kek: next_kek_version and the id of the new KEK
CreateKekVersion(t) ==
    /\ fileProvider # None
    /\ threads[t].op = "none" /\ threads[t].pc = "idle"
    /\ draws + 1 <= MaxDraws
    /\ LET version == next_kek_version(disk, fileProvider[1])
       IN  threads' = [threads EXCEPT
                ![t] = [op |-> "create_kek",
                        pc |-> IF version.ok THEN "write" ELSE "done",
                        kek_id |-> IF version.ok
                                   THEN StrKekV \o DecimalString(version.val)
                                   ELSE <<>>,
                        key |-> <<>>,
                        out |-> IF version.ok THEN Ok(<<>>) ELSE version]]
    /\ UNCHANGED <<disk, draws, sealedChaCha, sealedSiv, fileProvider, det, blobs,
                   res, hmacs, ctxVars, hdrVars>>

\* create_kek: generate_random_key and write_key_file
CreateKekWrite(t) ==
    /\ fileProvider # None
    /\ threads[t].op = "create_kek" /\ threads[t].pc = "write"
    /\ LET kek == generate_random_key(draws, KEK_SIZE)
           kek_path == PathJoin(fileProvider[1].key_dir,
                                KekFileName(threads[t].kek_id))
           w == write_key_file(disk, kek_path, kek)
       IN  /\ disk' = w.fs
           /\ draws' = draws + 1
           /\ threads' = [threads EXCEPT
                             ![t].key = kek,
                             ![t].pc = IF w.res.ok THEN "exists" ELSE "done",
                             ![t].out = w.res]
    /\ UNCHANGED <<sealedChaCha, sealedSiv, fileProvider, det, blobs, res, hmacs,
                   ctxVars, hdrVars>>

\* create_kek: current_link.exists()
CreateKekExists(t) ==
    /\ fileProvider # None
    /\ threads[t].op = "create_kek" /\ threads[t].pc = "exists"
    /\ LET current_link == PathJoin(fileProvider[1].key_dir, StrCurrent)
       IN  threads' = [threads EXCEPT
                          ![t].pc = IF PathExists(disk, current_link)
                                    THEN "remove" ELSE "symlink"]
    /\ UNCHANGED <<disk, draws, sealedChaCha, sealedSiv, fileProvider, det, blobs,
                   res, hmacs, ctxVars, hdrVars>>

\* create_kek: fs::remove_file(&current_link)?
CreateKekRemove(t) ==
    /\ fileProvider # None
    /\ threads[t].op = "create_kek" /\ threads[t].pc = "remove"
    /\ LET r == remove_file(disk, PathJoin(fileProvider[1].key_dir, StrCurrent))
       IN  /\ disk' = r.fs
           /\ threads' = [threads EXCEPT
                             ![t].pc = IF r.res.ok THEN "symlink" ELSE "done",
                             ![t].out = r.res]
    /\ UNCHANGED <<draws, sealedChaCha, sealedSiv, fileProvider, det, blobs, res,
                   hmacs, ctxVars, hdrVars>>

\* create_kek: create_symlink(&kek_path, &current_link)? and Ok(kek_id)
CreateKekSymlink(t) ==
    /\ fileProvider # None
    /\ threads[t].op = "create_kek" /\ threads[t].pc = "symlink"
    /\ LET kek_path == PathJoin(fileProvider[1].key_dir,
                                KekFileName(threads[t].kek_id))
           l == create_symlink(disk, kek_path,
                               PathJoin(fileProvider[1].key_dir, StrCurrent))
       IN  /\ disk' = l.fs
           /\ threads' = [threads EXCEPT
                             ![t].pc = "done",
                             ![t].out = IF l.res.ok THEN Ok(threads[t].kek_id)
                                        ELSE l.res]
    /\ UNCHANGED <<draws, sealedChaCha, sealedSiv, fileProvider, det, blobs, res,
                   hmacs, ctxVars, hdrVars>>

\* current_kek_id: current_link.exists() of resolve_current_kek
CurrentKekIdExists(t) ==
    /\ fileProvider # None
    /\ threads[t].op = "none" /\ threads[t].pc = "idle"
    /\ LET exists == PathExists(disk, PathJoin(fileProvider[1].key_dir, StrCurrent))
       IN  threads' = [threads EXCEPT
                ![t] = [ThreadIdle EXCEPT
                           !.op = "current_kek_id",
                           !.pc = IF exists THEN "read_link" ELSE "done",
                           !.out = IF exists THEN Ok(<<>>)
                                   ELSE Err("NoActiveKek", "", <<>>)]]
    /\ UNCHANGED <<disk, draws, sealedChaCha, sealedSiv, fileProvider, det, blobs,
                   res, hmacs, ctxVars, hdrVars>>

\* current_kek_id: fs::read_link and the rest of resolve_current_kek
CurrentKekIdReadLink(t) ==
    /\ fileProvider # None
    /\ threads[t].op = "current_kek_id" /\ threads[t].pc = "read_link"
    /\ threads' = [threads EXCEPT
                      ![t].pc = "done",
                      ![t].out = ReadCurrentLink(disk, fileProvider[1])]
    /\ UNCHANGED <<disk, draws, sealedChaCha, sealedSiv, fileProvider, det, blobs,
                   res, hmacs, ctxVars, hdrVars>>

\* the caller takes the result; the thread is free for its next call
ThreadReturn(t) ==
    /\ threads[t].pc = "done"
    /\ threads' = [threads EXCEPT ![t] = ThreadIdle]
    /\ UNCHANGED <<disk, draws, sealedChaCha, sealedSiv, fileProvider, det, blobs,
                   res, hmacs, ctxVars, hdrVars>>

NextRace ==
    \/ KeyInit(KeyDirAbsolute)
    \/ ProviderNew(KeyDirAbsolute)
    \/ \E t \in Threads :
          \/ CreateKekVersion(t)
          \/ CreateKekWrite(t)
          \/ CreateKekExists(t)
          \/ CreateKekRemove(t)
          \/ CreateKekSymlink(t)
          \/ CurrentKekIdExists(t)
          \/ CurrentKekIdReadLink(t)
          \/ ThreadReturn(t)

SpecRace == InitVault /\ [][NextRace]_vars

\* the key file of kek_id holds key
KekFileHolds(kek_id, key) ==
    read_kek(disk, fileProvider[1], kek_id) = Ok(key)

(* C11: on an initialized key directory, a current_kek_id call that runs   *)
(* while another thread executes create_kek succeeds and returns the id of *)
(* a KEK of the directory (the previous or the new one); it never fails    *)
(* with NoActiveKek or an I/O error because of the rotation in progress.   *)
C11_CurrentKekIdDuringRotation ==
    \A t \in Threads :
        (threads[t].op = "current_kek_id" /\ threads[t].pc = "done") =>
            /\ threads[t].out.ok
            /\ threads[t].out.val \in KekIds

(* C12: two create_kek calls that run at the same time on one key          *)
(* directory both succeed, with distinct KEK ids, and each id's key file   *)
(* keeps the key its call wrote: no call overwrites the file of another.   *)
C12_ConcurrentCreateKek ==
    \A t \in Threads, u \in Threads :
        (/\ t # u
         /\ threads[t].op = "create_kek" /\ threads[t].pc = "done"
         /\ threads[u].op = "create_kek" /\ threads[u].pc = "done") =>
            /\ threads[t].out.ok
            /\ threads[t].out.val # threads[u].out.val
            /\ KekFileHolds(threads[t].kek_id, threads[t].key)

-----------------------------------------------------------------------------
(* Properties of the deterministic vault.                                  *)

\* the contexts c and d differ in exactly one field
DiffersInOneField(c, d) ==
    Cardinality({f \in {"tenant_id", "table_name", "column_name", "version"} :
                    c[f] # d[f]}) = 1

(* C13: DeterministicVault.encrypt is a function of the key, the plaintext *)
(* and the context: two calls with the same P and C, on the vault or on a  *)
(* clone, return the same bytes, and changing one field of C (tenant,      *)
(* table, column or version) changes the ciphertext.                       *)
C13_DeterministicEncrypt ==
    det # None =>
        \A i \in 1..Len(blobs), j \in 1..Len(blobs) :
            blobs[i].p = blobs[j].p =>
                /\ blobs[i].c = blobs[j].c => blobs[i].blob = blobs[j].blob
                /\ DiffersInOneField(blobs[i].c, blobs[j].c)
                      => blobs[i].blob # blobs[j].blob

\* what does hold: two ciphertexts of one vault are equal exactly when the
\* plaintexts and the canonical strings of the contexts are
DeterministicInCanonicalString ==
    det # None =>
        \A i \in 1..Len(blobs), j \in 1..Len(blobs) :
            blobs[i].blob = blobs[j].blob
                <=> /\ blobs[i].p = blobs[j].p
                    /\ CanonicalString(blobs[i].c) = CanonicalString(blobs[j].c)

(* C14: DeterministicVault.decrypt of encrypt(P, C1) under a context C2    *)
(* that differs from C1 in any field fails, decrypt of a ciphertext with a *)
(* changed byte fails, and both fail with the same decryption error.       *)
C14_DeterministicDecryptFails ==
    /\ (res.op = "det_decrypt" /\ res.ctx # blobs[res.i].c) =>
          res.out = Err("Decryption", "AES-SIV decryption failed", <<>>)
    /\ res.op = "det_decrypt_changed" =>
          res.out = Err("Decryption", "AES-SIV decryption failed", <<>>)

\* what does hold: the same for the contexts whose canonical string differs
\* from that of C1, while a context with the same string decrypts
DeterministicDecryptByCanonicalString ==
    /\ res.op = "det_decrypt" =>
          res.out = IF CanonicalString(res.ctx) = CanonicalString(blobs[res.i].c)
                    THEN Ok(blobs[res.i].p)
                    ELSE Err("Decryption", "AES-SIV decryption failed", <<>>)
    /\ res.op = "det_decrypt_changed" =>
          res.out = Err("Decryption", "AES-SIV decryption failed", <<>>)

(* C15: DeterministicVault::new succeeds exactly when the key is 64 bytes  *)
(* long; for every other length n it fails with InvalidKeyLength{expected: *)
(* 64, actual: n} and no vault is created.                                 *)
C15_DeterministicKeyLength ==
    res.op = "det_new" =>
        IF Len(res.data) = 64
        THEN res.out.ok /\ det = Some([key |-> res.data])
        ELSE /\ res.out = Err("InvalidKeyLength", "", <<<<64>>, <<Len(res.data)>>>>)
             /\ det = None

C15_Witness ==
    /\ res.op = "det_new"
    /\ Len(res.data) = 65
    /\ res.out.err.kind = "InvalidKeyLength"
    /\ det = None
-----------------------------------------------------------------------------
(* Blind indexes.  A run initializes the key directory and opens the       *)
(* FileKeyProvider, or takes the MockKeyProvider, which has no pepper;     *)
(* it computes blind indexes and rotates the KEK in any order.  blobs      *)
(* keeps every index with the value and the context it was made from.      *)

\* the indexed values: the empty one and "a"
IndexValues == {<<>>, StrA}

\* the contexts indexed under: table "a" and column "a" with no tenant, at
\* the versions 1 and 2, and with the tenants "default", "a" and "aa"
IndexContexts ==
    LET plain == EncryptionContextNew(StrA, StrA)
    IN  {plain, with_version(plain, 2)}
            \cup {with_tenant(plain, t) : t \in {StrDefault, StrA, StrA \o StrA}}

\* Vault::new(MockKeyProvider::new(), CipherMode::default())
MockNew ==
    /\ Running
    /\ det = None
    /\ fileProvider # Some(MockKeyProviderNew)
    /\ fileProvider' = Some(MockKeyProviderNew)
    /\ res' = Call("mock_new", 0, NoContext, <<>>, Ok(<<>>))
    /\ UNCHANGED <<disk, draws, sealedChaCha, sealedSiv, det, blobs,
                   ctxVars, hdrVars, hmacs, threads>>

\* generate_blind_index(&provider, value, &IndexContext::from(&context))
BlindIndex(value, context) ==
    /\ Running
    /\ fileProvider # None
    /\ Len(blobs) < MaxBlobs
    /\ LET r == generate_blind_index(disk, hmacs, fileProvider[1], value,
                                     IndexContextFrom(context))
       IN  /\ hmacs' = r.macs
           /\ blobs' = IF r.res.ok
                       THEN Append(blobs, [p |-> value, c |-> context,
                                           blob |-> r.res.val])
                       ELSE blobs
           /\ res' = Call("blind_index", IF r.res.ok THEN Len(blobs) + 1 ELSE 0,
                          context, value, r.res)
    /\ UNCHANGED <<disk, draws, sealedChaCha, sealedSiv, fileProvider, det,
                   ctxVars, hdrVars, threads>>

NextIndex ==
    \/ KeyInit(KeyDirAbsolute)
    \/ ProviderNew(KeyDirAbsolute)
    \/ MockNew
    \/ CreateKek
    \/ \E v \in IndexValues, c \in IndexContexts : BlindIndex(v, c)

SpecIndex == InitVault /\ [][NextIndex]_vars

-----------------------------------------------------------------------------
(* Properties of the blind index.                                          *)

\* the byte string generate_blind_index feeds to the HMAC for (value, context)
IndexMessage(value, context) ==
    value \o IndexCanonicalString(IndexContextFrom(context))

\* C16: generate_blind_index(provider, V, C) returns the first 16 bytes of
\* HMAC-SHA256 keyed with the provider's pepper over V followed by the
\* canonical string of C, for the empty V too; the same V and C give the
\* same index; a provider without a pepper gives IndexGenerationFailed.
C16_BlindIndexIsTruncatedHmac ==
    /\ res.op = "blind_index" =>
          LET pepper == ProviderGetPepper(disk, fileProvider[1])
              mac == HmacSha256(hmacs, pepper.val[1], IndexMessage(res.data, res.ctx))
          IN  /\ (pepper.ok /\ pepper.val # None) =>
                    /\ mac.macs = hmacs
                    /\ res.out = Ok(SubSeq(mac.out, 1, 16))
                    /\ Len(res.out.val) = 16
              /\ (pepper.ok /\ pepper.val = None) =>
                    /\ ~res.out.ok
                    /\ res.out.err.kind = "IndexGenerationFailed"
    /\ \A i \in 1..Len(blobs), j \in 1..Len(blobs) :
          (blobs[i].p = blobs[j].p /\ blobs[i].c = blobs[j].c) =>
              blobs[i].blob = blobs[j].blob

\* the index of the empty value was computed, and an index was computed twice
C16_Witness ==
    /\ res.op = "blind_index"
    /\ res.out.ok
    /\ res.data = <<>>
    /\ Len(blobs) = 2
    /\ blobs[1].p = blobs[2].p
    /\ blobs[1].c = blobs[2].c
\* C17: a different value V or a different IndexContext (differing in the
\* tenant alone, too) gives a different blind index, the byte string fed to
\* the HMAC being different for any two different (V, C) pairs.
C17_BlindIndexSeparation ==
    \A i \in 1..Len(blobs), j \in 1..Len(blobs) :
        (\/ blobs[i].p # blobs[j].p
         \/ IndexContextFrom(blobs[i].c) # IndexContextFrom(blobs[j].c)) =>
            /\ IndexMessage(blobs[i].p, blobs[i].c) # IndexMessage(blobs[j].p, blobs[j].c)
            /\ blobs[i].blob # blobs[j].blob

\* two indexes differ exactly when the byte strings fed to the HMAC differ
BlindIndexByMessage ==
    \A i \in 1..Len(blobs), j \in 1..Len(blobs) :
        (blobs[i].blob = blobs[j].blob) <=>
            (IndexMessage(blobs[i].p, blobs[i].c) = IndexMessage(blobs[j].p, blobs[j].c))

\* the index the provider gives now for the value and context of entry i
BlindIndexNow(i) ==
    generate_blind_index(disk, hmacs, fileProvider[1], blobs[i].p,
                         IndexContextFrom(blobs[i].c)).res

\* C18: IndexContext::from(&ctx) keeps the tenant, table and column of ctx
\* and drops its version, so that contexts differing only in the version
\* give the same index; and whatever create_kek calls were made since, the
\* pepper is the one init wrote and every index computed before is the
\* index computed now.
C18_IndexSurvivesRotation ==
    /\ \A c \in IndexContexts :
          IndexContextFrom(c) = IndexContextFrom(with_version(c, 3 - c.version))
    /\ \A i \in 1..Len(blobs), j \in 1..Len(blobs) :
          (/\ blobs[i].p = blobs[j].p
           /\ blobs[i].c = with_version(blobs[j].c, blobs[i].c.version)) =>
              blobs[i].blob = blobs[j].blob
    /\ (fileProvider # None /\ blobs # <<>>) =>
          (IsFileKeyProvider(fileProvider[1]) =>
              /\ get_pepper(disk, fileProvider[1]) = Ok(Some(RandomBytes(2, PEPPER_SIZE)))
              /\ \A i \in 1..Len(blobs) : BlindIndexNow(i) = Ok(blobs[i].blob))

\* the KEK was rotated after the same value was indexed under two contexts
\* that differ in the version alone
C18_Witness ==
    /\ res.op = "create_kek"
    /\ res.out.ok
    /\ Len(blobs) = 2
    /\ blobs[1].p = blobs[2].p
    /\ blobs[1].c # blobs[2].c
    /\ blobs[1].c = with_version(blobs[2].c, blobs[1].c.version)
-----------------------------------------------------------------------------
(* Key derivation.  A run derives DEKs from KEKs and contexts; blobs keeps *)
(* every DEK with the KEK (as p) and the context it was derived from.      *)

\* the KEKs: 32 bytes of 1, 32 bytes of 2, and 16 bytes of 1
Keks == {Repeat(1, 32), Repeat(2, 32), Repeat(1, 16)}

\* derive_dek(&kek, &context)
DeriveDek(kek, context) ==
    /\ Running
    /\ Len(blobs) < MaxBlobs
    /\ LET r == derive_dek(hmacs, kek, context)
       IN  /\ hmacs' = r.macs
           /\ blobs' = IF r.res.ok
                       THEN Append(blobs, [p |-> kek, c |-> context, blob |-> r.res.val])
                       ELSE blobs
           /\ res' = Call("derive_dek", IF r.res.ok THEN Len(blobs) + 1 ELSE 0,
                          context, kek, r.res)
    /\ UNCHANGED <<disk, draws, sealedChaCha, sealedSiv, fileProvider, det,
                   ctxVars, hdrVars, threads>>

NextKdf == \E kek \in Keks, c \in VaultContexts : DeriveDek(kek, c)

SpecKdf == InitVault /\ [][NextKdf]_vars

\* C19: derive_dek(kek, C) always returns 32 bytes, returns the same bytes
\* for the same kek and C, and returns different bytes when the kek changes
\* or when any one field of C changes.
C19_DeriveDek ==
    /\ res.op = "derive_dek" => (res.out.ok /\ Len(res.out.val) = 32)
    /\ \A i \in 1..Len(blobs), j \in 1..Len(blobs) :
          /\ (blobs[i].p = blobs[j].p /\ blobs[i].c = blobs[j].c) =>
                blobs[i].blob = blobs[j].blob
          /\ (blobs[i].p # blobs[j].p /\ blobs[i].c = blobs[j].c) =>
                blobs[i].blob # blobs[j].blob
          /\ (blobs[i].p = blobs[j].p /\ DiffersInOneField(blobs[i].c, blobs[j].c)) =>
                blobs[i].blob # blobs[j].blob

\* C25: derive_dek performs HKDF-Expand only, the KEK itself being the
\* pseudorandom key: its output is the first block of HKDF-Expand,
\* HMAC-SHA256(kek, C.to_string() || 0x01).
C25_ExpandOnly ==
    res.op = "derive_dek" =>
        LET okm == HmacSha256(hmacs, res.data, CanonicalString(res.ctx) \o <<1>>)
        IN  res.out = Ok(SubSeq(okm.out, 1, 32))

\* C25, amended: derive_dek performs HKDF-Extract with no salt (32 zero
\* bytes) over the KEK as input key material and then HKDF-Expand with the
\* canonical string as info: its output is HMAC-SHA256(PRK, info || 0x01)
\* with PRK = HMAC-SHA256(zeros, kek), both computed in the call.
C25_ExtractThenExpand ==
    res.op = "derive_dek" =>
        LET prk == HmacSha256(hmacs, Repeat(0, 32), res.data)
            okm == HmacSha256(hmacs, prk.out, CanonicalString(res.ctx) \o <<1>>)
        IN  /\ prk.macs = hmacs
            /\ okm.macs = hmacs
            /\ res.out = Ok(SubSeq(okm.out, 1, 32))

\* a DEK was derived from the KEK of 32 bytes 0x01 under a context with a
\* tenant and the version 2
C25_Witness ==
    /\ res.op = "derive_dek"
    /\ res.out.ok
    /\ res.data = Repeat(1, 32)
    /\ res.ctx.tenant_id # None
    /\ res.ctx.version = 2

\* derive_dek always returns 32 bytes, and two DEKs are equal exactly when
\* the KEKs and the canonical strings of the contexts are
DeriveDekByCanonicalString ==
    /\ res.op = "derive_dek" => (res.out.ok /\ Len(res.out.val) = 32)
    /\ \A i \in 1..Len(blobs), j \in 1..Len(blobs) :
          (blobs[i].blob = blobs[j].blob) <=>
              /\ blobs[i].p = blobs[j].p
              /\ CanonicalString(blobs[i].c) = CanonicalString(blobs[j].c)
-----------------------------------------------------------------------------
(* The stages of Vault::decrypt.  A run opens the vault over the           *)
(* FileKeyProvider or over the MockKeyProvider, and may change from one to *)
(* the other; it encrypts, and decrypts a blob under any context, or the   *)
(* latest blob with one byte changed, under the provider it has then,      *)
(* which need not hold the KEK the blob was made with.                     *)

NextStages ==
    \/ KeyInit(KeyDirAbsolute)
    \/ ProviderNew(KeyDirAbsolute)
    \/ MockNew
    \/ \E p \in Plaintexts : Encrypt(p, NoContext)
    \/ \E i \in 1..MaxBlobs, c \in VaultContexts : Decrypt(i, c)
    \/ DecryptChangedByte

SpecStages == InitVault /\ [][NextStages]_vars

\* what provider.unwrap_dek returns now for the header h
UnwrapNow(h) ==
    ProviderUnwrapDek(disk, sealedChaCha, fileProvider[1], h.kek_id, h.wrapped_dek)

\* C20: Vault.decrypt fails in stages.  Bytes whose header does not parse
\* fail with from_bytes' InvalidHeader or UnsupportedVersion, whatever the
\* provider would answer; with a parsed header, a failing unwrap_dek fails
\* with KeyProvider(e) carrying the provider's error e; with a DEK, a tag
\* mismatch fails with AuthenticationFailed, for a wrong key, for a context
\* of another canonical string and for changed ciphertext bytes alike.
C20_DecryptFailureStages ==
    res.op \in {"decrypt", "decrypt_changed"} =>
        LET parsedHeader == from_bytes(res.data)
            h == parsedHeader.val.header
            dek == UnwrapNow(h)
            authFailed == Err("AuthenticationFailed", "", <<>>)
            sized == Len(dek.val) = DEK_SIZE /\ Len(h.nonce) = NONCE_SIZE
            original == from_bytes(blobs[res.i].blob).val
        IN  /\ ~parsedHeader.ok =>
                  /\ res.out = parsedHeader
                  /\ res.out.err.kind \in {"InvalidHeader", "UnsupportedVersion"}
            /\ (parsedHeader.ok /\ ~dek.ok) =>
                  /\ ~res.out.ok
                  /\ res.out.err.kind = "KeyProvider"
                  /\ res.out.err.inner = dek.err.kind
                  /\ res.out.err.detail = dek.err.detail
            /\ (parsedHeader.ok /\ dek.ok /\ sized) =>
                  /\ res.out.ok \/ res.out = authFailed
                  /\ (CanonicalString(res.ctx) # CanonicalString(blobs[res.i].c)) =>
                        res.out = authFailed
                  /\ (res.op = "decrypt_changed" /\ res.pos > original.consumed) =>
                        res.out = authFailed
                  /\ (res.op = "decrypt_changed" /\ dek # UnwrapNow(original.header)) =>
                        res.out = authFailed

\* the version byte of a blob was changed and the provider does not hold
\* the KEK the blob names: the header's error is returned
C20_Witness ==
    /\ res.op = "decrypt_changed"
    /\ res.pos = 1
    /\ ~from_bytes(res.data).ok
    /\ res.out.err.kind = "UnsupportedVersion"
    /\ ~UnwrapNow(BlobHeader(res.i)).ok

\* a wrapped DEK was changed and the mock unwrapped it to another key
StagesWrongKey ==
    /\ res.op = "decrypt_changed"
    /\ from_bytes(res.data).ok
    /\ UnwrapNow(from_bytes(res.data).val.header).ok
    /\ UnwrapNow(from_bytes(res.data).val.header) # UnwrapNow(BlobHeader(res.i))
    /\ res.out = Err("AuthenticationFailed", "", <<>>)

\* a failing unwrap_dek was reported as KeyProvider(KekNotFound)
StagesProviderError ==
    /\ res.op = "decrypt"
    /\ res.out.err.kind = "KeyProvider"
    /\ res.out.err.inner = "KekNotFound"
-----------------------------------------------------------------------------
(* Encryption over every provider.  A run initializes the key directory    *)
(* under either path and opens the vault over the FileKeyProvider or over  *)
(* a MockKeyProvider that holds no KEK; it rotates and encrypts.           *)
(* res.calls holds the calls encrypt made on the provider.                 *)

\* Vault::new over a MockKeyProvider that holds no KEK
MockEmptyNew ==
    /\ Running
    /\ det = None
    /\ fileProvider # Some(MockKeyProviderEmpty)
    /\ fileProvider' = Some(MockKeyProviderEmpty)
    /\ res' = Call("mock_new", 0, NoContext, <<>>, Ok(<<>>))
    /\ UNCHANGED <<disk, draws, sealedChaCha, sealedSiv, det, blobs,
                   ctxVars, hdrVars, hmacs, threads>>

NextEncrypt ==
    \/ \E d \in KeyDirs : KeyInit(d)
    \/ \E d \in KeyDirs : ProviderNew(d)
    \/ MockEmptyNew
    \/ CreateKek
    \/ \E p \in Plaintexts : Encrypt(p, NoContext)

SpecEncrypt == InitVault /\ [][NextEncrypt]_vars

\* C21: a successful Vault.encrypt(P, C) returns the header bytes followed
\* by the AEAD ciphertext with its tag: from_bytes of the blob gives
\* version 1, the kek_id that current_kek_id returned in this call, the
\* wrapped_dek that wrap_dek returned for it, empty flags and a nonce of 12
\* bytes, and the bytes consumed are where the ciphertext of P starts.
C21_BlobLayout ==
    (res.op = "encrypt" /\ res.out.ok) =>
        LET blob == res.out.val
            parsedHeader == from_bytes(blob)
            h == parsedHeader.val.header
            n == parsedHeader.val.consumed
            body == SubSeq(blob, n + 1, Len(blob))
        IN  /\ parsedHeader.ok
            /\ h.version = 1
            /\ res.calls[1].op = "current_kek_id"
            /\ h.kek_id = res.calls[1].out.val
            /\ res.calls[2].op = "wrap_dek"
            /\ res.calls[2].kek_id = h.kek_id
            /\ h.wrapped_dek = res.calls[2].out.val
            /\ h.flags = 0
            /\ Len(h.nonce) = 12
            /\ to_bytes(h) = Ok(SubSeq(blob, 1, n))
            /\ Len(body) = Len(res.data) + TAG_SIZE
            /\ ChaChaDecrypt(sealedChaCha, UnwrapNow(h).val, h.nonce,
                             CanonicalString(res.ctx), body).val = res.data
            /\ ChaChaDecrypt(sealedChaCha, UnwrapNow(h).val, h.nonce,
                             CanonicalString(res.ctx), body).ok

\* a non-empty plaintext was encrypted after a rotation
C21_Witness ==
    /\ res.op = "encrypt"
    /\ res.out.ok
    /\ res.data # <<>>
    /\ IsFileKeyProvider(fileProvider[1])
    /\ from_bytes(res.out.val).val.header.kek_id = StrKekV \o DecimalString(2)

\* C22: Vault.encrypt calls current_kek_id once and then wrap_dek at most
\* once, with no retry: a successful encrypt made exactly these two calls;
\* when current_kek_id fails, wrap_dek is not called and the failure is
\* returned as a KeyProvider error; when wrap_dek fails, the failure is
\* returned and no blob is produced.
C22_EncryptCallOrder ==
    res.op = "encrypt" =>
        LET calls == res.calls
        IN  /\ Len(calls) \in {1, 2}
            /\ calls[1].op = "current_kek_id"
            /\ calls[1].out = ProviderCurrentKekId(disk, fileProvider[1])
            /\ Len(calls) = 2 <=> calls[1].out.ok
            /\ Len(calls) = 2 =>
                  (calls[2].op = "wrap_dek" /\ calls[2].kek_id = calls[1].out.val)
            /\ res.out.ok => (Len(calls) = 2 /\ calls[2].out.ok)
            /\ ~calls[1].out.ok =>
                  /\ res.out = FromKeyProviderError(calls[1].out)
                  /\ res.out.err.kind = "KeyProvider"
                  /\ res.i = 0
            /\ (Len(calls) = 2 /\ ~calls[2].out.ok) =>
                  /\ res.out = FromKeyProviderError(calls[2].out)
                  /\ res.i = 0

\* wrap_dek failed in an encrypt call
C22_Witness ==
    /\ res.op = "encrypt"
    /\ Len(res.calls) = 2
    /\ ~res.calls[2].out.ok
    /\ ~res.out.ok

\* current_kek_id failed in an encrypt call
EncryptWithoutCurrentKek ==
    /\ res.op = "encrypt"
    /\ Len(res.calls) = 1
    /\ res.out.err.inner = "NoActiveKek"
-----------------------------------------------------------------------------
(* unwrap_dek of the FileKeyProvider.  A run initializes the key           *)
(* directory, opens the vault, encrypts, and calls unwrap_dek on the       *)
(* wrapped DEK of a blob: whole or cut short, with a byte changed or not,  *)
(* under the KEK id of the header or under one that names no KEK.          *)

\* the lengths a wrapped DEK of 60 bytes is cut to
WrappedCuts == {0, 11, 12, 28, 60}

\* provider.unwrap_dek(kek_id, the first cut bytes of the wrapped DEK of
\* blob i with the byte at pos XORed with mask)
UnwrapDek(i, kek_id, cut, pos, mask) ==
    /\ Running
    /\ fileProvider # None
    /\ i \in 1..Len(blobs)
    /\ LET whole == from_bytes(blobs[i].blob).val.header.wrapped_dek
           wrapped == [j \in 1..cut |->
                          IF j = pos THEN XorByte(whole[j], mask) ELSE whole[j]]
           out == ProviderUnwrapDek(disk, sealedChaCha, fileProvider[1], kek_id, wrapped)
       IN  /\ cut <= Len(whole)
           /\ res' = [CallAt("unwrap_dek", i, pos, NoContext, wrapped, out)
                         EXCEPT !.calls = <<ProviderCall("unwrap_dek", kek_id, out)>>]
    /\ UNCHANGED <<disk, draws, sealedChaCha, sealedSiv, fileProvider, det, blobs,
                   ctxVars, hdrVars, hmacs, threads>>

NextUnwrap ==
    \/ KeyInit(KeyDirAbsolute)
    \/ ProviderNew(KeyDirAbsolute)
    \/ \E p \in Plaintexts : Encrypt(p, NoContext)
    \/ \E i \in 1..MaxBlobs, n \in {1, 9}, cut \in WrappedCuts :
          \/ UnwrapDek(i, StrKekV \o DecimalString(n), cut, 0, 0)
          \/ \E pos \in 1..cut, mask \in ByteMasks :
                UnwrapDek(i, StrKekV \o DecimalString(n), cut, pos, mask)

SpecUnwrap == InitVault /\ [][NextUnwrap]_vars

\* C23: unwrap_dek fails with UnwrapFailed for every failing input: wrapped
\* bytes that are too short or malformed, a kek_id that names no stored
\* KEK, and a wrapped DEK that fails authentication.
C23_UnwrapFailed ==
    (res.op = "unwrap_dek" /\ ~res.out.ok) => res.out.err.kind = "UnwrapFailed"

\* the error of unwrap_dek by its cause: UnwrapFailed for fewer than 12
\* bytes, else KekNotFound for an id with no key file, else UnwrapFailed
\* for every wrapped DEK but the one wrap_dek returned
UnwrapDekErrors ==
    res.op = "unwrap_dek" =>
        LET kek_id == res.calls[1].kek_id
            stored == read_kek(disk, fileProvider[1], kek_id).ok
            whole == from_bytes(blobs[res.i].blob).val.header.wrapped_dek
        IN  IF Len(res.data) < FILE_NONCE_SIZE
            THEN res.out.err.kind = "UnwrapFailed"
            ELSE IF ~stored THEN res.out.err.kind = "KekNotFound"
            ELSE IF res.data # whole THEN res.out.err.kind = "UnwrapFailed"
            ELSE res.out.ok
-----------------------------------------------------------------------------
(* from_bytes on arbitrary bytes.  A run starts from any sequence of at    *)
(* most MaxParseLen bytes, each 0, 1 or 255, and parses it whole or cut    *)
(* short: wire holds the sequence, parsed the call and its result.         *)

ParseInputs == UNION {[1..n -> {0, 1, 255}] : n \in 0..MaxParseLen}

InitParse ==
    /\ CtxIdle
    /\ hdr = None
    /\ parsed = None
    /\ \E data \in ParseInputs : wire = Some(Ok(data))
    /\ VaultIdle

NextParse ==
    \/ FromBytesWhole
    \/ \E n \in 0..MaxParseLen : FromBytesPrefix(n)

SpecParse == InitParse /\ [][NextParse]_vars

\* C24: from_bytes returns the number of bytes it consumed: when it returns
\* (H, n) for the bytes D, n is at most the length of D, to_bytes(H) is the
\* first n bytes of D, and these n bytes alone parse to (H, n); and when
\* some first bytes of D parse, D parses to the same (H, n), whatever
\* follows them.
C24_BytesConsumed ==
    parsed # None =>
        LET data == parsed[1].input
            r == parsed[1].res
            n == r.val.consumed
        IN  r.ok =>
                /\ n <= Len(data)
                /\ to_bytes(r.val.header) = Ok(SubSeq(data, 1, n))
                /\ from_bytes(SubSeq(data, 1, n)) = r
                /\ from_bytes(wire[1].val) = r

\* a sequence parsed in which more bytes follow the header
C24_Witness ==
    /\ parsed # None
    /\ parsed[1].res.ok
    /\ parsed[1].res.val.consumed < Len(parsed[1].input)
    /\ parsed[1].res.val.header.kek_id # <<>>

\* C27: from_bytes checks the version byte before any length: every
\* non-empty input whose first byte v is not 1 fails with
\* UnsupportedVersion{version: v}, the one-byte input too; InvalidHeader is
\* returned only for the empty input and for inputs whose first byte is 1.
C27_VersionBeforeLengths ==
    parsed # None =>
        LET data == parsed[1].input
            r == parsed[1].res
        IN  /\ (data # <<>> /\ data[1] # 1) =>
                  /\ ~r.ok
                  /\ r.err.kind = "UnsupportedVersion"
                  /\ r.err.detail[1] = <<data[1]>>
            /\ (~r.ok /\ r.err.kind = "InvalidHeader") => (data = <<>> \/ data[1] = 1)
            /\ data = <<>> => (~r.ok /\ r.err.kind = "InvalidHeader")

\* the one-byte input [255] was parsed
C27_Witness ==
    /\ parsed # None
    /\ parsed[1].input = <<255>>
    /\ parsed[1].res.err.kind = "UnsupportedVersion"
-----------------------------------------------------------------------------
(* The flags byte.  A run initializes the key directory, opens the vault,  *)
(* encrypts under several contexts, and decrypts a blob, as it is or with  *)
(* its flags byte replaced by any other value, under the blob's context.   *)

\* vault.decrypt(the latest blob with its flags byte replaced, its context)
DecryptChangedFlags ==
    /\ blobs # <<>>
    /\ \E mask \in 1..255 :
           DecryptChanged(Len(blobs), FlagsPosition(BlobHeader(Len(blobs))), mask)

NextFlags ==
    \/ KeyInit(KeyDirAbsolute)
    \/ ProviderNew(KeyDirAbsolute)
    \/ \E p \in Plaintexts, c \in EncryptContexts : Encrypt(p, c)
    \/ \E i \in 1..MaxBlobs : (i <= Len(blobs) /\ Decrypt(i, blobs[i].c))
    \/ DecryptChangedFlags

SpecFlags == InitVault /\ [][NextFlags]_vars

\* C26: Vault.decrypt does not interpret the header flags: a blob of
\* encrypt(P, C) with its flags byte replaced by any other value parses to
\* the same header but for the flags, and decrypt under C returns for it
\* what it returns for the blob itself, the plaintext P.
C26_FlagsIgnored ==
    (res.op = "decrypt_changed" /\ res.pos = FlagsPosition(BlobHeader(res.i))) =>
        LET changed == from_bytes(res.data).val
            original == from_bytes(blobs[res.i].blob).val
        IN  /\ from_bytes(res.data).ok
            /\ changed.header.flags # original.header.flags
            /\ changed.header = [original.header EXCEPT !.flags = changed.header.flags]
            /\ changed.consumed = original.consumed
            /\ res.out = DecryptNow(res.i, res.ctx)
            /\ res.out = Ok(blobs[res.i].p)

\* the deterministic-mode bit alone was set in the flags of a blob
C26_Witness ==
    /\ res.op = "decrypt_changed"
    /\ res.pos = FlagsPosition(BlobHeader(res.i))
    /\ from_bytes(res.data).val.header.flags = 1
    /\ res.out.ok
-----------------------------------------------------------------------------
(* Blobs of other sizes.  A run opens the vault over either provider and   *)
(* encrypts; it also assembles blobs by hand from the public parts: a DEK  *)
(* of any length wrapped by provider.wrap_dek under the current KEK, put   *)
(* with a nonce of any length into EncryptionHeader::new, and to_bytes of  *)
(* that header followed by the plaintext and sixteen more bytes.  Any blob *)
(* is then decrypted.                                                      *)

\* header.to_bytes() || p || sixteen bytes, for a header built over
\* provider.wrap_dek(current_kek_id, dek) with dek of dek_len bytes and a
\* nonce of nonce_len bytes
Craft(dek_len, nonce_len, p) ==
    /\ Running
    /\ fileProvider # None
    /\ Len(blobs) < MaxBlobs
    /\ draws + 1 <= MaxDraws
    /\ LET kek_id == ProviderCurrentKekId(disk, fileProvider[1])
           wrapped == ProviderWrapDek(disk, draws, sealedChaCha, fileProvider[1],
                                      kek_id.val, Repeat(7, dek_len))
           header == EncryptionHeaderNew(kek_id.val, wrapped.res.val, HeaderFlagsEmpty,
                                         Repeat(9, nonce_len))
           header_bytes == to_bytes(header)
           data == header_bytes.val \o p \o Repeat(0, TAG_SIZE)
       IN  /\ kek_id.ok
           /\ wrapped.res.ok
           /\ header_bytes.ok
           /\ draws' = wrapped.rng
           /\ sealedChaCha' = wrapped.macs
           /\ blobs' = Append(blobs, [p |-> p, c |-> NoContext, blob |-> data])
           /\ res' = Call("craft", Len(blobs) + 1, NoContext, data, Ok(data))
    /\ UNCHANGED <<disk, sealedSiv, fileProvider, det,
                   ctxVars, hdrVars, hmacs, threads>>

NextSizes ==
    \/ KeyInit(KeyDirAbsolute)
    \/ ProviderNew(KeyDirAbsolute)
    \/ MockNew
    \/ \E p \in Plaintexts : Encrypt(p, NoContext)
    \/ \E dek_len \in {16, 32, 33}, nonce_len \in {0, 12, 13} :
          Craft(dek_len, nonce_len, <<104, 105>>)
    \/ \E i \in 1..MaxBlobs : Decrypt(i, NoContext)

SpecSizes == InitVault /\ [][NextSizes]_vars

\* C28: Vault.decrypt of a blob whose header parses and whose DEK unwraps,
\* but whose unwrapped DEK is not 32 bytes long or whose header nonce is not
\* 12 bytes long, fails with DecryptionFailed ("Invalid DEK" for the DEK,
\* else "Invalid nonce size"): not with AuthenticationFailed, which the
\* AEAD decryption of these bytes would give, nor InvalidHeader, nor Ok.
C28_BadSizesFailDecryption ==
    res.op = "decrypt" =>
        LET parsedHeader == from_bytes(res.data)
            dek == UnwrapNow(parsedHeader.val.header)
        IN  IF ~parsedHeader.ok THEN TRUE
            ELSE IF ~dek.ok THEN TRUE
            ELSE IF Len(dek.val) # 32
            THEN res.out = Err("DecryptionFailed", "Invalid DEK", <<>>)
            ELSE IF Len(parsedHeader.val.header.nonce) # 12
            THEN res.out = Err("DecryptionFailed", "Invalid nonce size", <<>>)
            ELSE res.out.ok \/ res.out.err.kind = "AuthenticationFailed"

\* a blob with a 16-byte DEK wrapped by the FileKeyProvider was decrypted
C28_Witness ==
    /\ res.op = "decrypt"
    /\ from_bytes(res.data).ok
    /\ IsFileKeyProvider(fileProvider[1])
    /\ UnwrapNow(from_bytes(res.data).val.header).ok
    /\ Len(UnwrapNow(from_bytes(res.data).val.header).val) = 16
    /\ Len(from_bytes(res.data).val.header.nonce) = 12
    /\ ~res.out.ok

\* a blob with a 32-byte DEK and a 13-byte nonce was refused
SizesBadNonce ==
    ~ /\ res.op = "decrypt"
      /\ from_bytes(res.data).ok
      /\ Len(from_bytes(res.data).val.header.nonce) = 13
      /\ res.out = Err("DecryptionFailed", "Invalid nonce size", <<>>)
-----------------------------------------------------------------------------
(* The key directory in sequential use.  A run initializes the key         *)
(* directory and opens the provider, each under the absolute or the        *)
(* relative path, and then calls create_kek, current_kek_id, wrap_dek and  *)
(* unwrap_dek (through the vault) and get_pepper (through the blind index) *)
(* in any order; only the calls that succeed are taken.                    *)

NextLink ==
    \/ \E d \in KeyDirs : (KeyInit(d) /\ res'.out.ok)
    \/ \E d \in KeyDirs : (ProviderNew(d) /\ res'.out.ok)
    \/ (CreateKek /\ res'.out.ok)
    \/ (CurrentKekId /\ res'.out.ok)
    \/ \E p \in Plaintexts : (Encrypt(p, NoContext) /\ res'.out.ok)
    \/ \E i \in 1..MaxBlobs : (Decrypt(i, NoContext) /\ res'.out.ok)
    \/ (BlindIndex(StrA, NoContext) /\ res'.out.ok)

SpecLink == InitVault /\ [][NextLink]_vars

\* the `current` link of the provider's key directory exists and names a
\* KEK whose key file exists
CurrentLinkHolds ==
    fileProvider # None =>
        LET current == resolve_current_kek(disk, fileProvider[1])
        IN  /\ PathExists(disk, PathJoin(fileProvider[1].key_dir, StrCurrent))
            /\ current.ok
            /\ current.val \in KekIds
            /\ read_kek(disk, fileProvider[1], current.val).ok

\* a create_kek step returns kek_v(N+1) for the highest version N present
\* before it, and adds the key file of that id and no other
CreateKekNextId ==
    (res'.op = "create_kek" /\ disk' # disk) =>
        LET before == KekVersions(disk, fileProvider[1].key_dir)
            N == CHOOSE m \in before : \A v \in before : m >= v
        IN  /\ before # {}
            /\ res'.out = Ok(StrKekV \o DecimalString(N + 1))
            /\ KekVersions(disk', fileProvider[1].key_dir) = before \cup {N + 1}

\* C29: in every state reached by FileKeyProvider operations after init,
\* all succeeding, the `current` link exists and names a KEK whose key file
\* exists, and each create_kek returns kek_v(N+1) for the highest version N
\* present, so that no id is issued twice.
C29_CurrentLinkAndIds == [][CurrentLinkHolds' /\ CreateKekNextId]_vars

\* the ids alone: each create_kek returns kek_v(N+1)
KekIdsIncrease == [][CreateKekNextId]_vars

\* the link, for a key directory initialized and opened under its absolute
\* path
CurrentLinkUnderAbsolutePath ==
    (/\ fileProvider # None
     /\ fileProvider[1].key_dir = KeyDirAbsolute
     /\ \A l \in disk.links : IsAbsolute(l.target)) => CurrentLinkHolds

\* two rotations were made under the absolute path
LinkRotatedTwice ==
    ~ /\ res.op = "create_kek"
      /\ res.out = Ok(StrKekV \o DecimalString(3))
      /\ \A l \in disk.links : IsAbsolute(l.target)
-----------------------------------------------------------------------------
(* The vault's calls and the state of its provider.  A run initializes the *)
(* key directory and opens the vault over the FileKeyProvider, each under  *)
(* the absolute or the relative path; it rotates, encrypts, and decrypts   *)
(* blobs under their context and under another.                            *)

NextStateless ==
    \/ \E d \in KeyDirs : KeyInit(d)
    \/ \E d \in KeyDirs : ProviderNew(d)
    \/ CreateKek
    \/ \E p \in Plaintexts : Encrypt(p, NoContext)
    \/ \E i \in 1..MaxBlobs, c \in {NoContext, DefaultTenantContext} : Decrypt(i, c)

SpecStateless == InitVault /\ [][NextStateless]_vars

\* a step is a call of vault.encrypt or vault.decrypt
VaultCallStep == res'.op \in {"encrypt", "decrypt"}

\* C30: Vault.encrypt and Vault.decrypt, succeeding or failing, leave the
\* provider handle and the key directory (the KEK files, the `current`
\* link, the pepper) as they were; only init and create_kek change the
\* key directory; and so what decrypt returns for any blob made so far
\* under any context, what current_kek_id and get_pepper return, and
\* whether an encrypt succeeds, are the same after the call as before it.
C30_VaultCallsChangeNothing ==
    [][/\ VaultCallStep =>
            /\ fileProvider' = fileProvider
            /\ disk' = disk
            /\ ProviderCurrentKekId(disk', fileProvider'[1])
                  = ProviderCurrentKekId(disk, fileProvider[1])
            /\ ProviderGetPepper(disk', fileProvider'[1])
                  = ProviderGetPepper(disk, fileProvider[1])
            /\ \A i \in 1..Len(blobs), c \in {NoContext, DefaultTenantContext} :
                  VaultDecrypt(disk', sealedChaCha', fileProvider'[1], blobs[i].blob, c)
                     = VaultDecrypt(disk, sealedChaCha, fileProvider[1], blobs[i].blob, c)
            /\ VaultEncrypt(disk', draws', sealedChaCha', fileProvider'[1], <<104, 105>>,
                            NoContext).res.ok
                  = VaultEncrypt(disk, draws, sealedChaCha, fileProvider[1], <<104, 105>>,
                                 NoContext).res.ok
       /\ disk' # disk => res'.op \in {"init", "create_kek"}]_vars

\* a second blob was encrypted after a rotation, with the first still there
C30_Witness ==
    /\ res.op = "encrypt"
    /\ res.out.ok
    /\ Len(blobs) = 2
    /\ BlobHeader(1).kek_id # BlobHeader(2).kek_id
    /\ DecryptNow(1, NoContext) = Ok(blobs[1].p)

\* an encrypt failed
StatelessEncryptFailed == ~(res.op = "encrypt" /\ ~res.out.ok)


=============================================================================
